---- MODULE Spec2Model ----
(***************************************************************************)
(* A model of the apple-data-import pipeline: the play-activity analyzer   *)
(* (analyze_music_watch.py), the Strava matcher (fetch_strava_data.py),    *)
(* the deduplicator (deduplicate_albums.py), the speculative-match fold    *)
(* (merge_maybe_data.py) and the hand-edit scripts that rewrite data.json. *)
(*                                                                         *)
(* Conventions.  A JSON object / Python dict is a function from field      *)
(* names to values; a missing key is a key outside DOMAIN.  A text value   *)
(* whose content is inspected by the code (album names, timestamps) is a   *)
(* sequence: <<>> is the empty string and comparison is lexicographic.     *)
(* The scripts name the viewer's data file under two directories           *)
(* (public/data.json and src/data.json); the model has one persisted       *)
(* document, the file the viewer reads.  generated_at and config are not   *)
(* modelled: no operation reads them.                                      *)
(***************************************************************************)
EXTENDS Integers, Sequences, FiniteSets, TLC

VARIABLES
    rows,                   \* "Apple Music Play Activity.csv": the append-only event log
    data,                   \* data.json: the persisted document, or NoFile
    maybe_albums,           \* data_maybe.json: the batch of speculative matches
    starredByUser,          \* album names the user starred and has not un-starred since
    lastOp,                 \* the script that ran last
    raised,                 \* the exception that ended the last script, or "none"
    albums_with_same_name,  \* merge_albums: its argument
    merged,                 \* merge_albums: its result
    album_timestamp,        \* find_matching_strava_activity: reference timestamp
    strava_activities,      \* find_matching_strava_activity: candidate list
    tolerance_minutes,      \* find_matching_strava_activity: tolerance
    best_match,             \* find_matching_strava_activity: its result
    watch_analyzer,         \* analyze_music_watch.py: the WatchAlbumAnalyzer object
    watch_row_count,        \* process_play_activity: rows read so far (row_count)
    music_analyzer,         \* analyze_music.py: the MusicAnalyzer object
    music_row_count,        \* process_csv: rows read so far (row_count)
    music_report,           \* outputs/data.json: the report of analyze_music.py, or NoFile
    catalog,                \* the Container Details files and the mappings loaded from them
    export,                 \* whether the play-activity export can be opened, and the exit status
    client                  \* fetch_strava_data.py: the StravaClient object and its server

vars == <<rows, data, maybe_albums, starredByUser, lastOp, raised,
          albums_with_same_name, merged,
          album_timestamp, strava_activities, tolerance_minutes, best_match,
          watch_analyzer, watch_row_count, music_analyzer, music_row_count,
          music_report, catalog, export, client>>

pipelineVars == <<rows, data, maybe_albums, starredByUser, lastOp, raised>>
mergeVars    == <<albums_with_same_name, merged>>
matchVars    == <<album_timestamp, strava_activities, tolerance_minutes, best_match>>
passVars     == <<watch_analyzer, watch_row_count, music_analyzer, music_row_count,
                  music_report>>
sourceVars   == <<catalog, export, client>>

(***************************************************************************)
(* Bounds                                                                  *)
(***************************************************************************)
MaxGroup == 2        \* records in one merge group
MaxPlays == 2        \* largest play_count of an enumerated record
MaxActivities == 3   \* activities in one candidate list
MaxRows == 4         \* rows of the exported play-activity log
MaxBatch == 2        \* records in data_maybe.json
MaxEvents == 3       \* rows of an export read row by row
MaxTracks == 203     \* distinct tracks of the album of a finished pass
MaxOrdered == 3      \* records in a merge group whose order is permuted
MaxCatalogRows == 2  \* rows of one Container Details file
MaxBudget == 3       \* max_requests given to get_activities
MaxPages == 3        \* non-empty pages of activities the account holds

(***************************************************************************)
(* Python dict and str primitives                                          *)
(***************************************************************************)
NoFile == [nofile |-> TRUE]
NoMatch == [nomatch |-> TRUE]      \* the return value None of the matcher
NotRun == [notrun |-> TRUE]        \* a result variable before its function ran

Has(d, k) == k \in DOMAIN d
Get(d, k, default) == IF k \in DOMAIN d THEN d[k] ELSE default
Put(d, k, v) == [x \in (DOMAIN d) \cup {k} |-> IF x = k THEN v ELSE d[x]]
Del(d, k) == [x \in (DOMAIN d) \ {k} |-> d[x]]
\* for key in keys: if key in src: dst[key] = src[key]
CopyKeys(dst, src, keys) ==
    [x \in (DOMAIN dst) \cup (keys \cap DOMAIN src) |->
        IF x \in keys /\ x \in DOMAIN src THEN src[x] ELSE dst[x]]

RECURSIVE LexLess(_, _)
\* a < b on str: character-wise, a proper prefix is smaller
LexLess(a, b) ==
    IF b = <<>> THEN FALSE
    ELSE IF a = <<>> THEN TRUE
    ELSE IF Head(a) # Head(b) THEN Head(a) < Head(b)
    ELSE LexLess(Tail(a), Tail(b))

SeqSet(s) == {s[i] : i \in 1..Len(s)}

(***************************************************************************)
(* Timestamps.  An ISO-8601 text is the sequence of its fixed-width fields *)
(* <<day of December 2025, minute of the day, second>>, optionally followed*)
(* by the designator Z; the sequences compare lexicographically as the     *)
(* texts do.  Junk stands for a text that is not ISO-8601.                 *)
(***************************************************************************)
Z == 10000
Junk == <<10001>>
Stamp(d, m, s) == <<d, m, s, Z>>       \* "2025-12-ddThh:mm:ssZ"
NaiveStamp(d, m, s) == <<d, m, s>>     \* "2025-12-ddThh:mm:ss"

(***************************************************************************)
(* Record fields                                                           *)
(***************************************************************************)
\* every key of the model's vocabulary for which key.startswith('strava_')
StravaKeys == {"strava_activity_id", "strava_activity_name", "strava_activity_type",
               "strava_start_date", "strava_distance_miles",
               "strava_moving_time_seconds", "strava_pace_per_mile",
               "strava_elevation_gain_meters"}

Smoochies == <<"Smoochies">>
Single == " - Single"

\* round(meters * 0.000621371, 2), in hundredths of a mile (the model's
\* distances stay below 3.4 km, where the product fits TLC's integers)
MilesHundredths(meters) == (meters * 621371 + 5000000) \div 10000000

\* the "MM:SS" text, kept as the arguments that determine it
seconds_to_pace(seconds, meters) ==
    IF meters = 0 THEN [text |-> "0:00"] ELSE [seconds |-> seconds, meters |-> meters]

\* elevations are in hundredths of a metre; the keys not listed here
\* (elapsed time, speeds, heart rate, cadence, suffer score) are written by
\* this function alone and copied with the others
extract_strava_metrics(activity) ==
    [strava_activity_id |-> activity.id,
     strava_activity_name |-> Get(activity, "name", ""),
     strava_activity_type |-> Get(activity, "type", ""),
     strava_start_date |-> Get(activity, "start_date", <<>>),
     strava_distance_miles |-> MilesHundredths(Get(activity, "distance", 0)),
     strava_moving_time_seconds |-> Get(activity, "moving_time", 0),
     strava_pace_per_mile |-> seconds_to_pace(Get(activity, "moving_time", 0),
                                              Get(activity, "distance", 0)),
     strava_elevation_gain_meters |-> Get(activity, "total_elevation_gain", 0)]

(***************************************************************************)
(* deduplicate_albums.py                                                   *)
(***************************************************************************)
RECURSIVE InsertDesc(_, _)
\* position of x in a list kept in descending play_count order, after its equals
InsertDesc(x, s) ==
    IF s = <<>> THEN <<x>>
    ELSE IF Get(Head(s), "play_count", 0) >= Get(x, "play_count", 0)
         THEN <<Head(s)>> \o InsertDesc(x, Tail(s))
         ELSE <<x>> \o s

RECURSIVE SortByPlayCountDesc(_)
\* sorted(key=play_count, reverse=True) / sort(key=-play_count): stable
SortByPlayCountDesc(s) ==
    IF s = <<>> THEN <<>>
    ELSE LET n == Len(s)
         IN InsertDesc(s[n], SortByPlayCountDesc(SubSeq(s, 1, n - 1)))

Truthy(d, k) == Has(d, k) /\ d[k] # <<>>
TruthyId(d) == Has(d, "strava_activity_id") /\ d["strava_activity_id"] # 0

\* merge_step with the flag assigned from the folded record instead of OR-ed
merge_step_StarAssigned(m, album) ==
    LET m1 == Put(m, "starred", Get(album, "starred", FALSE))
        m2 == IF Truthy(album, "first_listen")
                 /\ (LET current_first == Get(m1, "first_listen", <<>>)
                     IN current_first = <<>> \/ LexLess(album["first_listen"], current_first))
              THEN Put(m1, "first_listen", album["first_listen"]) ELSE m1
        m3 == IF Truthy(album, "last_listen")
                 /\ (LET current_last == Get(m2, "last_listen", <<>>)
                     IN current_last = <<>> \/ LexLess(current_last, album["last_listen"]))
              THEN Put(m2, "last_listen", album["last_listen"]) ELSE m2
        m4 == IF ~TruthyId(m3) /\ TruthyId(album)
              THEN CopyKeys(m3, album, StravaKeys) ELSE m3
    IN m4

\* merge_step copying the activity id without the other strava_ fields
merge_step_IdOnly(m, album) ==
    LET m1 == IF Get(album, "starred", FALSE) THEN Put(m, "starred", TRUE) ELSE m
        m2 == IF Truthy(album, "first_listen")
                 /\ (LET current_first == Get(m1, "first_listen", <<>>)
                     IN current_first = <<>> \/ LexLess(album["first_listen"], current_first))
              THEN Put(m1, "first_listen", album["first_listen"]) ELSE m1
        m3 == IF Truthy(album, "last_listen")
                 /\ (LET current_last == Get(m2, "last_listen", <<>>)
                     IN current_last = <<>> \/ LexLess(current_last, album["last_listen"]))
              THEN Put(m2, "last_listen", album["last_listen"]) ELSE m2
        m4 == IF ~TruthyId(m3) /\ TruthyId(album)
              THEN CopyKeys(m3, album, {"strava_activity_id"}) ELSE m3
    IN m4

\* merge_step taking the folded record's first_listen without comparing it
merge_step_FirstAssigned(m, album) ==
    LET m1 == IF Get(album, "starred", FALSE) THEN Put(m, "starred", TRUE) ELSE m
        m2 == IF Truthy(album, "first_listen")
              THEN Put(m1, "first_listen", album["first_listen"]) ELSE m1
        m3 == IF Truthy(album, "last_listen")
                 /\ (LET current_last == Get(m2, "last_listen", <<>>)
                     IN current_last = <<>> \/ LexLess(current_last, album["last_listen"]))
              THEN Put(m2, "last_listen", album["last_listen"]) ELSE m2
        m4 == IF ~TruthyId(m3) /\ TruthyId(album)
              THEN CopyKeys(m3, album, StravaKeys) ELSE m3
    IN m4

\* one iteration of the loop "for album in sorted_albums[1:]"
merge_step(m, album) ==
    LET m1 == IF Get(album, "starred", FALSE) THEN Put(m, "starred", TRUE) ELSE m
        m2 == IF Truthy(album, "first_listen")
                 /\ (LET current_first == Get(m1, "first_listen", <<>>)
                     IN current_first = <<>> \/ LexLess(album["first_listen"], current_first))
              THEN Put(m1, "first_listen", album["first_listen"]) ELSE m1
        m3 == IF Truthy(album, "last_listen")
                 /\ (LET current_last == Get(m2, "last_listen", <<>>)
                     IN current_last = <<>> \/ LexLess(current_last, album["last_listen"]))
              THEN Put(m2, "last_listen", album["last_listen"]) ELSE m2
        m4 == IF ~TruthyId(m3) /\ TruthyId(album)
              THEN CopyKeys(m3, album, StravaKeys) ELSE m3
    IN m4

RECURSIVE merge_loop(_, _)
merge_loop(m, rest) ==
    IF rest = <<>> THEN m ELSE merge_loop(merge_step(m, Head(rest)), Tail(rest))

\* merge_albums without the sort: the first record of the input is the base
merge_albums_InputOrder(group) ==
    IF Len(group) = 1 THEN group[1]
    ELSE merge_loop(group[1], Tail(group))

merge_albums(group) ==
    IF Len(group) = 1 THEN group[1]
    ELSE LET sorted_albums == SortByPlayCountDesc(group)
         IN merge_loop(sorted_albums[1], Tail(sorted_albums))

(***************************************************************************)
(* fetch_strava_data.py: the Activity Matcher                              *)
(***************************************************************************)
IsIso(ts) ==
    /\ Len(ts) \in {3, 4}
    /\ ts[1] \in 1..31
    /\ ts[2] \in 0..1439
    /\ ts[3] \in 0..59
    /\ Len(ts) = 4 => ts[4] = Z

\* datetime.fromisoformat(ts.replace('Z', '+00:00')), or None
parse_iso_timestamp(ts) ==
    IF ts = <<>> THEN [ok |-> FALSE]
    ELSE IF ~IsIso(ts) THEN [ok |-> FALSE]
    ELSE [ok |-> TRUE, aware |-> (Len(ts) = 4),
          secs |-> 86400 * ts[1] + 60 * ts[2] + ts[3]]

Abs(x) == IF x < 0 THEN -x ELSE x

\* match_step with an exclusive tolerance test (time_diff < tolerance_seconds)
match_step_Exclusive(st, album_time, tolerance_seconds, activity) ==
    IF st.raised # "none" THEN st
    ELSE IF ~Has(activity, "start_date") THEN st
    ELSE LET activity_start == parse_iso_timestamp(activity["start_date"])
         IN IF ~activity_start.ok THEN st
            ELSE IF activity_start.aware # album_time.aware
                 THEN [st EXCEPT !.raised = "TypeError"]
            ELSE LET time_diff == Abs(album_time.secs - activity_start.secs)
                 IN IF time_diff < tolerance_seconds
                       /\ (st.best = NoMatch \/ time_diff < st.best_diff)
                    THEN [st EXCEPT !.best = activity, !.best_diff = time_diff]
                    ELSE st

\* one iteration of "for activity in strava_activities"; st = [best, best_diff, raised],
\* best = NoMatch standing for best_diff = inf
match_step(st, album_time, tolerance_seconds, activity) ==
    IF st.raised # "none" THEN st
    ELSE IF ~Has(activity, "start_date") THEN st
    ELSE LET activity_start == parse_iso_timestamp(activity["start_date"])
         IN IF ~activity_start.ok THEN st
            ELSE IF activity_start.aware # album_time.aware
                 THEN [st EXCEPT !.raised = "TypeError"]
            ELSE LET time_diff == Abs(album_time.secs - activity_start.secs)
                 IN IF time_diff <= tolerance_seconds
                       /\ (st.best = NoMatch \/ time_diff < st.best_diff)
                    THEN [st EXCEPT !.best = activity, !.best_diff = time_diff]
                    ELSE st

RECURSIVE match_loop(_, _, _, _)
match_loop(st, album_time, tolerance_seconds, activities) ==
    IF activities = <<>> THEN st
    ELSE match_loop(match_step(st, album_time, tolerance_seconds, Head(activities)),
                    album_time, tolerance_seconds, Tail(activities))

\* the result as [best, raised]: the returned activity (or NoMatch), or the exception
find_matching_strava_activity(ts, activities, tolerance) ==
    LET album_time == parse_iso_timestamp(ts)
    IN IF ~album_time.ok THEN [best |-> NoMatch, raised |-> "none"]
       ELSE LET st == match_loop([best |-> NoMatch, best_diff |-> 0, raised |-> "none"],
                                 album_time, tolerance * 60, activities)
            IN [best |-> IF st.raised = "none" THEN st.best ELSE NoMatch,
                raised |-> st.raised]

(***************************************************************************)
(* analyze_music_watch.py                                                  *)
(***************************************************************************)
\* str.upper() on the device vocabulary, word by word
Upper(word) ==
    CASE word = "Watch" -> "WATCH"
      [] word = "watchOS" -> "WATCHOS"
      [] word = "iPhone" -> "IPHONE"
      [] word = "iOS" -> "IOS"
      [] OTHER -> word
UpperText(text) == [i \in DOMAIN text |-> Upper(text[i])]
\* indicator in text
Contains(text, indicator) ==
    \E i \in DOMAIN text :
        \/ text[i] = indicator
        \/ indicator = "WATCH" /\ text[i] = "WATCHOS"

\* is_watch_device looking at the device type only
is_watch_device_TypeOnly(row) ==
    LET device_type == UpperText(row.Device_Type)
    IN \E indicator \in {"WATCH", "WATCHOS"} : Contains(device_type, indicator)

is_watch_device(row) ==
    LET device_type == UpperText(row.Device_Type)
        device_os == UpperText(row.Device_OS_Name)
        device_name == UpperText(row.Client_Device_Name)
    IN \E indicator \in {"WATCH", "WATCHOS"} :
          \/ Contains(device_type, indicator)
          \/ Contains(device_os, indicator)
          \/ Contains(device_name, indicator)

\* a duration cell: numeric text, empty text, or text float() rejects
Num(n) == [txt |-> "num", val |-> n]
EmptyCell == [txt |-> "empty", val |-> 0]
BadCell == [txt |-> "bad", val |-> 0]

\* is_track_listened with an exclusive threshold (listen_percentage > LISTEN_THRESHOLD)
is_track_listened_Strict(row) ==
    LET p == row.Play_Duration_Milliseconds
        m == row.Media_Duration_In_Milliseconds
    IN IF p.txt = "bad" \/ m.txt = "bad" THEN FALSE
       ELSE IF m.val = 0 THEN FALSE
       ELSE IF m.val > 0 THEN 2 * p.val > m.val
       ELSE 2 * p.val < m.val

is_track_listened(row) ==
    LET p == row.Play_Duration_Milliseconds
        m == row.Media_Duration_In_Milliseconds
    IN IF p.txt = "bad" \/ m.txt = "bad" THEN FALSE
       ELSE IF m.val = 0 THEN FALSE
       ELSE IF m.val > 0 THEN 2 * p.val >= m.val
       ELSE 2 * p.val <= m.val

RECURSIVE LStrip(_)
LStrip(text) == IF text # <<>> /\ Head(text) = " " THEN LStrip(Tail(text)) ELSE text
RECURSIVE RStrip(_)
RStrip(text) ==
    IF text # <<>> /\ text[Len(text)] = " "
    THEN RStrip(SubSeq(text, 1, Len(text) - 1)) ELSE text
Strip(text) == RStrip(LStrip(text))

\* if name.endswith(' - Single'): name = name[:-9]
StripSingle(name) ==
    IF name # <<>> /\ name[Len(name)] = Single
    THEN SubSeq(name, 1, Len(name) - 1) ELSE name

\* lines 162-168: first truthy candidate column, stripped, suffix removed
WatchAlbumKey(row) ==
    LET raw == IF row.Album_Name # <<>> THEN row.Album_Name
               ELSE IF row.Container_Album_Name # <<>> THEN row.Container_Album_Name
               ELSE row.Container_Name
    IN StripSingle(Strip(raw))

NewAnalyzer ==
    [album_tracks |-> <<>>, listened_tracks |-> <<>>, album_play_counts |-> <<>>,
     watch_albums |-> {}, album_first_listen |-> <<>>, album_last_listen |-> <<>>,
     skipped_rows |-> 0]

\* process_row recording a listened track under listened_tracks only
process_row_ListenedApart(a, row) ==
    IF ~is_watch_device(row) THEN a
    ELSE LET album_name == WatchAlbumKey(row)
             song_name == Strip(row.Song_Name)
         IN IF album_name = <<>> \/ song_name = <<>>
            THEN [a EXCEPT !.skipped_rows = @ + 1]
            ELSE LET event_timestamp ==
                         IF row.Event_End_Timestamp # <<>> THEN row.Event_End_Timestamp
                         ELSE row.Event_Start_Timestamp
                     first == IF ~Has(a.album_first_listen, album_name)
                                 \/ LexLess(event_timestamp, a.album_first_listen[album_name])
                              THEN Put(a.album_first_listen, album_name, event_timestamp)
                              ELSE a.album_first_listen
                     last == IF ~Has(a.album_last_listen, album_name)
                                \/ LexLess(a.album_last_listen[album_name], event_timestamp)
                             THEN Put(a.album_last_listen, album_name, event_timestamp)
                             ELSE a.album_last_listen
                 IN [a EXCEPT
                       !.album_tracks =
                           IF is_track_listened(row)
                           THEN Put(@, album_name, Get(@, album_name, {}))
                           ELSE Put(@, album_name, Get(@, album_name, {}) \cup {song_name}),
                       !.listened_tracks =
                           IF is_track_listened(row)
                           THEN Put(@, album_name, Get(@, album_name, {}) \cup {song_name})
                           ELSE @,
                       !.album_play_counts = Put(@, album_name, Get(@, album_name, 0) + 1),
                       !.watch_albums = @ \cup {album_name},
                       !.album_first_listen = IF event_timestamp # <<>> THEN first ELSE @,
                       !.album_last_listen = IF event_timestamp # <<>> THEN last ELSE @]

\* process_row reading the end timestamp only (no fallback to the start timestamp)
process_row_EndOnly(a, row) ==
    IF ~is_watch_device(row) THEN a
    ELSE LET album_name == WatchAlbumKey(row)
             song_name == Strip(row.Song_Name)
         IN IF album_name = <<>> \/ song_name = <<>>
            THEN [a EXCEPT !.skipped_rows = @ + 1]
            ELSE LET event_timestamp ==
                         row.Event_End_Timestamp
                     first == IF ~Has(a.album_first_listen, album_name)
                                 \/ LexLess(event_timestamp, a.album_first_listen[album_name])
                              THEN Put(a.album_first_listen, album_name, event_timestamp)
                              ELSE a.album_first_listen
                     last == IF ~Has(a.album_last_listen, album_name)
                                \/ LexLess(a.album_last_listen[album_name], event_timestamp)
                             THEN Put(a.album_last_listen, album_name, event_timestamp)
                             ELSE a.album_last_listen
                 IN [a EXCEPT
                       !.album_tracks =
                           Put(@, album_name, Get(@, album_name, {}) \cup {song_name}),
                       !.listened_tracks =
                           IF is_track_listened(row)
                           THEN Put(@, album_name, Get(@, album_name, {}) \cup {song_name})
                           ELSE @,
                       !.album_play_counts = Put(@, album_name, Get(@, album_name, 0) + 1),
                       !.watch_albums = @ \cup {album_name},
                       !.album_first_listen = IF event_timestamp # <<>> THEN first ELSE @,
                       !.album_last_listen = IF event_timestamp # <<>> THEN last ELSE @]

\* the body of "for row in reader"
process_row(a, row) ==
    IF ~is_watch_device(row) THEN a
    ELSE LET album_name == WatchAlbumKey(row)
             song_name == Strip(row.Song_Name)
         IN IF album_name = <<>> \/ song_name = <<>>
            THEN [a EXCEPT !.skipped_rows = @ + 1]
            ELSE LET event_timestamp ==
                         IF row.Event_End_Timestamp # <<>> THEN row.Event_End_Timestamp
                         ELSE row.Event_Start_Timestamp
                     first == IF ~Has(a.album_first_listen, album_name)
                                 \/ LexLess(event_timestamp, a.album_first_listen[album_name])
                              THEN Put(a.album_first_listen, album_name, event_timestamp)
                              ELSE a.album_first_listen
                     last == IF ~Has(a.album_last_listen, album_name)
                                \/ LexLess(a.album_last_listen[album_name], event_timestamp)
                             THEN Put(a.album_last_listen, album_name, event_timestamp)
                             ELSE a.album_last_listen
                 IN [a EXCEPT
                       !.album_tracks =
                           Put(@, album_name, Get(@, album_name, {}) \cup {song_name}),
                       !.listened_tracks =
                           IF is_track_listened(row)
                           THEN Put(@, album_name, Get(@, album_name, {}) \cup {song_name})
                           ELSE @,
                       !.album_play_counts = Put(@, album_name, Get(@, album_name, 0) + 1),
                       !.watch_albums = @ \cup {album_name},
                       !.album_first_listen = IF event_timestamp # <<>> THEN first ELSE @,
                       !.album_last_listen = IF event_timestamp # <<>> THEN last ELSE @]

RECURSIVE process_play_activity(_, _)
process_play_activity(a, log) ==
    IF log = <<>> THEN a ELSE process_play_activity(process_row(a, Head(log)), Tail(log))

\* load_artist_mapping over the Container Details export of the model:
\* one ALBUM row "Ashnikko - Smoochies"
album_to_artist == (Smoochies :> "Ashnikko")

\* round(listened / total * 100, 1) in tenths of a percent: to the nearest
\* tenth, an exact tie (13/16 = 81.25) to the even tenth.  (For a few ratios
\* that are ties but not binary fractions, 23/80, the float falls just off
\* the tie and Python gives the other tenth; none is near 50.0 or 70.0.)
CompletionTenths(listened, total) ==
    LET q == (listened * 1000) \div total
        twice_rest == 2 * ((listened * 1000) % total)
    IN IF twice_rest > total \/ (twice_rest = total /\ q % 2 = 1) THEN q + 1 ELSE q

\* the record get_watch_albums appends for album_name, or <<>> when it skips it
watch_entry(a, album_name) ==
    LET total_tracks == Cardinality(Get(a.album_tracks, album_name, {}))
        listened == Cardinality(Get(a.listened_tracks, album_name, {}))
    IN IF total_tracks = 0 \/ 2 * listened < total_tracks THEN <<>>
       ELSE << [album_name |-> album_name,
                artist_name |-> Get(album_to_artist, album_name, ""),
                total_tracks |-> total_tracks,
                listened_tracks |-> listened,
                completion_percentage |-> CompletionTenths(listened, total_tracks),
                play_count |-> a.album_play_counts[album_name],
                first_listen |-> Get(a.album_first_listen, album_name, <<>>),
                last_listen |-> Get(a.album_last_listen, album_name, <<>>),
                starred |-> FALSE] >>

RECURSIVE Flatten(_)
Flatten(ss) == IF ss = <<>> THEN <<>> ELSE Head(ss) \o Flatten(Tail(ss))

\* the orders in which "for album_name in self.watch_albums" may visit a set
Orders(S) == {o \in [1..Cardinality(S) -> S] : \A i, j \in DOMAIN o : i # j => o[i] # o[j]}

get_watch_albums(a, order) ==
    SortByPlayCountDesc(Flatten([i \in DOMAIN order |-> watch_entry(a, order[i])]))

Count(s, P(_)) == Cardinality({i \in DOMAIN s : P(s[i])})

COMPLETION_THRESHOLD_TENTHS == 700

\* the report generate_report writes over `existing` (NoFile when absent)
generate_report(a, order, existing) ==
    LET fresh == get_watch_albums(a, order)
        existing_starred ==
            IF existing = NoFile THEN {}
            ELSE {r.album_name : r \in {x \in SeqSet(existing.watch_albums) :
                                          Get(x, "starred", FALSE)}}
        watch == [i \in DOMAIN fresh |->
                    IF fresh[i].album_name \in existing_starred
                    THEN Put(fresh[i], "starred", TRUE) ELSE fresh[i]]
        HasArtist(r) == r.artist_name # ""
        Completed(r) == r.completion_percentage >= COMPLETION_THRESHOLD_TENTHS
        completed == SelectSeq(watch, Completed)
        with_artist == Count(watch, HasArtist)
    IN [watch_albums |-> watch,
        completed_watch_albums |-> completed,
        statistics |-> [watch_albums |-> Len(watch),
                        completed_watch_albums |-> Len(completed),
                        albums_with_artist_info |-> with_artist,
                        albums_without_artist_info |-> Len(watch) - with_artist]]

(***************************************************************************)
(* analyze_music.py: the MusicAnalyzer.  Its dict keys are the tuples      *)
(* (album_name, ''); the model keys by the album name, the only component  *)
(* that varies.  album_order is the insertion order of album_tracks.       *)
(***************************************************************************)
\* the first component of get_album_key(row): stripped, the suffix kept
get_album_key(row) ==
    LET raw == IF row.Album_Name # <<>> THEN row.Album_Name
               ELSE IF row.Container_Album_Name # <<>> THEN row.Container_Album_Name
               ELSE row.Container_Name
    IN Strip(raw)

NewMusicAnalyzer ==
    [album_tracks |-> <<>>, album_order |-> <<>>, listened_tracks |-> <<>>,
     album_play_counts |-> <<>>, watch_albums |-> {},
     album_first_listen |-> <<>>, album_last_listen |-> <<>>, skipped_rows |-> 0]

\* process_csv_row skipping on an empty album only (the song test left out)
process_csv_row_KeyOnly(a, row) ==
    LET album_key == get_album_key(row)
        song_name == Strip(row.Song_Name)
    IN IF album_key = <<>>
       THEN [a EXCEPT !.skipped_rows = @ + 1]
       ELSE LET event_timestamp ==
                    IF row.Event_End_Timestamp # <<>> THEN row.Event_End_Timestamp
                    ELSE row.Event_Start_Timestamp
                first == IF ~Has(a.album_first_listen, album_key)
                            \/ LexLess(event_timestamp, a.album_first_listen[album_key])
                         THEN Put(a.album_first_listen, album_key, event_timestamp)
                         ELSE a.album_first_listen
                last == IF ~Has(a.album_last_listen, album_key)
                           \/ LexLess(a.album_last_listen[album_key], event_timestamp)
                        THEN Put(a.album_last_listen, album_key, event_timestamp)
                        ELSE a.album_last_listen
            IN [a EXCEPT
                  !.album_tracks =
                      Put(@, album_key, Get(@, album_key, {}) \cup {song_name}),
                  !.album_order =
                      IF Has(a.album_tracks, album_key) THEN @ ELSE Append(@, album_key),
                  !.listened_tracks =
                      IF is_track_listened(row)
                      THEN Put(@, album_key, Get(@, album_key, {}) \cup {song_name})
                      ELSE @,
                  !.album_play_counts = Put(@, album_key, Get(@, album_key, 0) + 1),
                  !.album_first_listen = IF event_timestamp # <<>> THEN first ELSE @,
                  !.album_last_listen = IF event_timestamp # <<>> THEN last ELSE @,
                  !.watch_albums =
                      IF is_watch_device(row) THEN @ \cup {album_key} ELSE @]

\* process_csv_row counting the distinct tracks of the album instead of its plays
process_csv_row_CountsTracks(a, row) ==
    LET album_key == get_album_key(row)
        song_name == Strip(row.Song_Name)
    IN IF album_key = <<>> \/ song_name = <<>>
       THEN [a EXCEPT !.skipped_rows = @ + 1]
       ELSE LET event_timestamp ==
                    IF row.Event_End_Timestamp # <<>> THEN row.Event_End_Timestamp
                    ELSE row.Event_Start_Timestamp
                first == IF ~Has(a.album_first_listen, album_key)
                            \/ LexLess(event_timestamp, a.album_first_listen[album_key])
                         THEN Put(a.album_first_listen, album_key, event_timestamp)
                         ELSE a.album_first_listen
                last == IF ~Has(a.album_last_listen, album_key)
                           \/ LexLess(a.album_last_listen[album_key], event_timestamp)
                        THEN Put(a.album_last_listen, album_key, event_timestamp)
                        ELSE a.album_last_listen
            IN [a EXCEPT
                  !.album_tracks =
                      Put(@, album_key, Get(@, album_key, {}) \cup {song_name}),
                  !.album_order =
                      IF Has(a.album_tracks, album_key) THEN @ ELSE Append(@, album_key),
                  !.listened_tracks =
                      IF is_track_listened(row)
                      THEN Put(@, album_key, Get(@, album_key, {}) \cup {song_name})
                      ELSE @,
                  !.album_play_counts =
                      Put(@, album_key,
                          Cardinality(Get(a.album_tracks, album_key, {}) \cup {song_name})),
                  !.album_first_listen = IF event_timestamp # <<>> THEN first ELSE @,
                  !.album_last_listen = IF event_timestamp # <<>> THEN last ELSE @,
                  !.watch_albums =
                      IF is_watch_device(row) THEN @ \cup {album_key} ELSE @]

\* process_csv_row keeping the first timestamp seen as first_listen
process_csv_row_FirstSeen(a, row) ==
    LET album_key == get_album_key(row)
        song_name == Strip(row.Song_Name)
    IN IF album_key = <<>> \/ song_name = <<>>
       THEN [a EXCEPT !.skipped_rows = @ + 1]
       ELSE LET event_timestamp ==
                    IF row.Event_End_Timestamp # <<>> THEN row.Event_End_Timestamp
                    ELSE row.Event_Start_Timestamp
                first == IF ~Has(a.album_first_listen, album_key)
                         THEN Put(a.album_first_listen, album_key, event_timestamp)
                         ELSE a.album_first_listen
                last == IF ~Has(a.album_last_listen, album_key)
                           \/ LexLess(a.album_last_listen[album_key], event_timestamp)
                        THEN Put(a.album_last_listen, album_key, event_timestamp)
                        ELSE a.album_last_listen
            IN [a EXCEPT
                  !.album_tracks =
                      Put(@, album_key, Get(@, album_key, {}) \cup {song_name}),
                  !.album_order =
                      IF Has(a.album_tracks, album_key) THEN @ ELSE Append(@, album_key),
                  !.listened_tracks =
                      IF is_track_listened(row)
                      THEN Put(@, album_key, Get(@, album_key, {}) \cup {song_name})
                      ELSE @,
                  !.album_play_counts = Put(@, album_key, Get(@, album_key, 0) + 1),
                  !.album_first_listen = IF event_timestamp # <<>> THEN first ELSE @,
                  !.album_last_listen = IF event_timestamp # <<>> THEN last ELSE @,
                  !.watch_albums =
                      IF is_watch_device(row) THEN @ \cup {album_key} ELSE @]

\* the body of "for row in reader" of process_csv
process_csv_row(a, row) ==
    LET album_key == get_album_key(row)
        song_name == Strip(row.Song_Name)
    IN IF album_key = <<>> \/ song_name = <<>>
       THEN [a EXCEPT !.skipped_rows = @ + 1]
       ELSE LET event_timestamp ==
                    IF row.Event_End_Timestamp # <<>> THEN row.Event_End_Timestamp
                    ELSE row.Event_Start_Timestamp
                first == IF ~Has(a.album_first_listen, album_key)
                            \/ LexLess(event_timestamp, a.album_first_listen[album_key])
                         THEN Put(a.album_first_listen, album_key, event_timestamp)
                         ELSE a.album_first_listen
                last == IF ~Has(a.album_last_listen, album_key)
                           \/ LexLess(a.album_last_listen[album_key], event_timestamp)
                        THEN Put(a.album_last_listen, album_key, event_timestamp)
                        ELSE a.album_last_listen
            IN [a EXCEPT
                  !.album_tracks =
                      Put(@, album_key, Get(@, album_key, {}) \cup {song_name}),
                  !.album_order =
                      IF Has(a.album_tracks, album_key) THEN @ ELSE Append(@, album_key),
                  !.listened_tracks =
                      IF is_track_listened(row)
                      THEN Put(@, album_key, Get(@, album_key, {}) \cup {song_name})
                      ELSE @,
                  !.album_play_counts = Put(@, album_key, Get(@, album_key, 0) + 1),
                  !.album_first_listen = IF event_timestamp # <<>> THEN first ELSE @,
                  !.album_last_listen = IF event_timestamp # <<>> THEN last ELSE @,
                  !.watch_albums =
                      IF is_watch_device(row) THEN @ \cup {album_key} ELSE @]

\* music_entry counting the plays of the album as its listened tracks
music_entry_CountsPlays(a, album_key) ==
    LET total_tracks == Cardinality(Get(a.album_tracks, album_key, {}))
        listened == a.album_play_counts[album_key]
    IN [album_name |-> album_key,
        total_tracks |-> total_tracks,
        listened_tracks |-> listened,
        completion_percentage |->
            IF total_tracks > 0 THEN CompletionTenths(listened, total_tracks) ELSE 0,
        play_count |-> a.album_play_counts[album_key],
        first_listen |-> Get(a.album_first_listen, album_key, <<>>),
        last_listen |-> Get(a.album_last_listen, album_key, <<>>)]

\* the record both lists of analyze_music.py hold for album_key
music_entry(a, album_key) ==
    LET total_tracks == Cardinality(Get(a.album_tracks, album_key, {}))
        listened == Cardinality(Get(a.listened_tracks, album_key, {}))
    IN [album_name |-> album_key,
        total_tracks |-> total_tracks,
        listened_tracks |-> listened,
        completion_percentage |->
            IF total_tracks > 0 THEN CompletionTenths(listened, total_tracks) ELSE 0,
        play_count |-> a.album_play_counts[album_key],
        first_listen |-> Get(a.album_first_listen, album_key, <<>>),
        last_listen |-> Get(a.album_last_listen, album_key, <<>>)]

\* total_tracks != 0 and listened_tracks / total_tracks >= COMPLETION_THRESHOLD
MeetsThreshold(a, album_key) ==
    LET total_tracks == Cardinality(Get(a.album_tracks, album_key, {}))
        listened == Cardinality(Get(a.listened_tracks, album_key, {}))
    IN total_tracks # 0 /\ 1000 * listened >= COMPLETION_THRESHOLD_TENTHS * total_tracks

RECURSIVE InsertByCompletion(_, _)
\* position of x in a list kept in the order of the key
\* (-completion_percentage, -play_count), after its equals
InsertByCompletion(x, s) ==
    IF s = <<>> THEN <<x>>
    ELSE IF \/ Head(s).completion_percentage > x.completion_percentage
            \/ /\ Head(s).completion_percentage = x.completion_percentage
               /\ Head(s).play_count >= x.play_count
         THEN <<Head(s)>> \o InsertByCompletion(x, Tail(s))
         ELSE <<x>> \o s

RECURSIVE SortByCompletion(_)
SortByCompletion(s) ==
    IF s = <<>> THEN <<>>
    ELSE LET n == Len(s)
         IN InsertByCompletion(s[n], SortByCompletion(SubSeq(s, 1, n - 1)))

calculate_completed_albums(a) ==
    LET Meets(album_key) == MeetsThreshold(a, album_key)
        keys == SelectSeq(a.album_order, Meets)
    IN SortByCompletion([i \in DOMAIN keys |-> music_entry(a, keys[i])])

music_get_watch_albums(a, order) ==
    SortByPlayCountDesc([i \in DOMAIN order |-> music_entry(a, order[i])])

\* the report MusicAnalyzer.generate_report writes (the device vocabulary
\* lists of its statistics are not modelled)
music_generate_report(a, order) ==
    LET completed_albums == calculate_completed_albums(a)
        watch_albums == music_get_watch_albums(a, order)
    IN [completed_albums |-> completed_albums,
        watch_albums |-> watch_albums,
        statistics |-> [total_albums |-> Len(a.album_order),
                        completed_albums |-> Len(completed_albums),
                        watch_albums |-> Len(watch_albums)]]

(***************************************************************************)
(* find_missing_albums.py: the album name of a play near a run             *)
(***************************************************************************)
near_run_album_name(row) ==
    LET raw == IF row.Album_Name # <<>> THEN row.Album_Name
               ELSE IF row.Container_Album_Name # <<>> THEN row.Container_Album_Name
               ELSE row.Container_Name
    IN StripSingle(Strip(raw))

(***************************************************************************)
(* The Container Details catalog: load_artist_mapping of                   *)
(* analyze_music_watch.py and add_genres.py.  A description is the         *)
(* sequence of its words and of the separators Sep and Single; a Genres    *)
(* cell is the sequence of the comma-separated names.                      *)
(***************************************************************************)
Sep == " - "

\* ' - ' in desc: the separator, also as the beginning of ' - Single'
HasSep(desc) == \E i \in DOMAIN desc : desc[i] \in {Sep, Single}

FirstSep(desc) ==
    CHOOSE i \in DOMAIN desc :
        /\ desc[i] \in {Sep, Single}
        /\ \A j \in 1..(i - 1) : desc[j] \notin {Sep, Single}

\* desc.split(' - ', 1)[0].strip()
SplitArtist(desc) == Strip(SubSeq(desc, 1, FirstSep(desc) - 1))

\* desc.split(' - ', 1)[1].strip(); a split inside ' - Single' leaves 'Single'
SplitAlbum(desc) ==
    LET i == FirstSep(desc)
        rest == SubSeq(desc, i + 1, Len(desc))
    IN Strip(IF desc[i] = Sep THEN rest ELSE <<"Single">> \o rest)

\* one row of load_artist_mapping's loop over the Container Details CSV
artist_row(mapping, row) ==
    IF row.Container_Type # "ALBUM" THEN mapping
    ELSE LET desc == row.Container_Description
             artists_field == row.Artists
         IN IF HasSep(desc)
            THEN LET album == StripSingle(SplitAlbum(desc))
                 IN IF Has(mapping, album) THEN mapping
                    ELSE Put(mapping, album, SplitArtist(desc))
            ELSE IF artists_field # <<>> /\ desc # <<>>
            THEN LET album == StripSingle(Strip(desc))
                 IN IF Has(mapping, album) THEN mapping
                    ELSE Put(mapping, album, Strip(artists_field))
            ELSE mapping

RECURSIVE artist_rows(_, _)
artist_rows(mapping, file) ==
    IF file = <<>> THEN mapping
    ELSE artist_rows(artist_row(mapping, Head(file)), Tail(file))

\* WatchAlbumAnalyzer.load_artist_mapping: the Container Details file, then
\* the API lookups of artist_mapping.json for the albums still without artist
load_artist_mapping(file, api_mappings) ==
    LET from_csv == IF ~file.found THEN <<>> ELSE artist_rows(<<>>, file.rows)
        api == api_mappings.artist_mapping
    IN IF ~api_mappings.found THEN from_csv
       ELSE [album \in (DOMAIN from_csv) \cup (DOMAIN api) |->
                IF Has(from_csv, album) THEN from_csv[album] ELSE api[album]]

\* g.lower() on the genre vocabulary
LowerGenre(g) == IF g \in {"Music", "MUSIC"} THEN "music" ELSE g

\* clean_genres: the names other than 'music', in order; <<>> for ''
clean_genres(genres_string) ==
    LET Kept(g) == LowerGenre(g) # "music"
    IN SelectSeq(genres_string, Kept)

\* ', '.join(filtered_genres) on the genre vocabulary
JoinGenres(genres) ==
    CASE genres = <<>> -> ""
      [] genres = <<"Pop">> -> "Pop"
      [] genres = <<"Rock">> -> "Rock"
      [] genres = <<"Pop", "Rock">> -> "Pop, Rock"
      [] genres = <<"Rock", "Pop">> -> "Rock, Pop"
      [] OTHER -> "?"

\* one row of load_genres_from_csv's loop
genre_row(album_to_genres, row) ==
    IF row.Container_Type # "ALBUM" THEN album_to_genres
    ELSE LET desc == row.Container_Description
             genres_field == row.Genres
             cleaned_genres == JoinGenres(clean_genres(genres_field))
             Keep(album) ==
                 IF Has(album_to_genres, album) \/ cleaned_genres = ""
                 THEN album_to_genres
                 ELSE Put(album_to_genres, album, cleaned_genres)
         IN IF HasSep(desc) /\ genres_field # <<>>
            THEN Keep(StripSingle(SplitAlbum(desc)))
            ELSE IF desc # <<>> /\ genres_field # <<>>
            THEN Keep(StripSingle(Strip(desc)))
            ELSE album_to_genres

RECURSIVE genre_rows(_, _)
genre_rows(album_to_genres, file) ==
    IF file = <<>> THEN album_to_genres
    ELSE genre_rows(genre_row(album_to_genres, Head(file)), Tail(file))

\* load_genres_from_csv: {} when the file is not found
load_genres_from_csv(file) == IF ~file.found THEN <<>> ELSE genre_rows(<<>>, file.rows)

\* dict.update
Update(d, other) ==
    [k \in (DOMAIN d) \cup (DOMAIN other) |-> IF Has(other, k) THEN other[k] ELSE d[k]]

RECURSIVE load_all_genres(_, _)
\* the loop "for csv_path in container_csv_paths" of add_genres_to_data
load_all_genres(all_genres, files) ==
    IF files = <<>> THEN all_genres
    ELSE load_all_genres(Update(all_genres, load_genres_from_csv(Head(files))), Tail(files))

\* the document add_genres_to_data saves
add_genres_to_data(doc, files) ==
    LET all_genres == load_all_genres(<<>>, files)
        Matched(r) == Has(all_genres, r.album_name)
        albums == [i \in DOMAIN doc.watch_albums |->
                     IF Matched(doc.watch_albums[i])
                     THEN Put(doc.watch_albums[i], "genre",
                              all_genres[doc.watch_albums[i].album_name])
                     ELSE doc.watch_albums[i]]
        matched_count == Cardinality({i \in DOMAIN albums : Matched(albums[i])})
    IN [doc EXCEPT
          !.watch_albums = albums,
          !.statistics = Put(Put(@, "albums_with_genre_data", matched_count),
                             "albums_without_genre_data", Len(albums) - matched_count)]

(***************************************************************************)
(* toggle_star.py                                                          *)
(***************************************************************************)
\* index of the first record satisfying P, or 0
FirstIndex(s, P(_)) ==
    IF \E i \in DOMAIN s : P(s[i])
    THEN CHOOSE i \in DOMAIN s : P(s[i]) /\ \A j \in 1..(i - 1) : ~P(s[j])
    ELSE 0

\* toggle_star without its break: every record of the name is flipped
toggle_star_EveryNamed(doc, album_name) ==
    [doc EXCEPT !.watch_albums =
        [i \in DOMAIN @ |->
           IF @[i].album_name = album_name
           THEN Put(@[i], "starred", ~Get(@[i], "starred", FALSE)) ELSE @[i]]]

\* the document toggle_star saves; the document unchanged when no record is found
toggle_star(doc, album_name) ==
    LET Named(r) == r.album_name = album_name
        i == FirstIndex(doc.watch_albums, Named)
    IN IF i = 0 THEN doc
       ELSE [doc EXCEPT !.watch_albums[i] = Put(@, "starred", ~Get(@, "starred", FALSE))]

(***************************************************************************)
(* fetch_strava_data.py: merge_strava_data (test_mode = False)             *)
(***************************************************************************)
IsRun(activity) == Get(activity, "type", "") \in {"Run", "VirtualRun"}

\* the parsed first_listen / last_listen of the albums (lines 312-319)
all_dates(albums) ==
    {d \in UNION {{parse_iso_timestamp(Get(r, "first_listen", <<>>)),
                   parse_iso_timestamp(Get(r, "last_listen", <<>>))} :
                  r \in SeqSet(albums)} : d.ok}

\* lines 349-361 for one album: [album, matched, raised]
match_album(album, runs) ==
    LET first_listen == Get(album, "first_listen", <<>>)
        res == find_matching_strava_activity(first_listen, runs, 60)
    IN IF first_listen = <<>> THEN [album |-> album, matched |-> FALSE, raised |-> "none"]
       ELSE IF res.raised # "none"
            THEN [album |-> album, matched |-> FALSE, raised |-> res.raised]
       ELSE IF res.best = NoMatch
            THEN [album |-> album, matched |-> FALSE, raised |-> "none"]
       ELSE [album |-> CopyKeys(album, extract_strava_metrics(res.best), StravaKeys),
             matched |-> TRUE, raised |-> "none"]

\* lines 374-384: copy the strava fields of the matched watch album of the same name
sync_completed(completed, all_albums) ==
    [i \in DOMAIN completed |->
        LET Source(w) == w.album_name = completed[i].album_name
                         /\ Has(w, "strava_activity_id")
            j == FirstIndex(all_albums, Source)
        IN IF j = 0 THEN completed[i]
           ELSE CopyKeys(completed[i], all_albums[j], StravaKeys)]

\* [doc, raised]: the document after the script and the exception that ended it
merge_strava_data(doc, activities) ==
    LET all_albums == doc.watch_albums
        dates == all_dates(all_albums)
        runs == SelectSeq(activities, IsRun)
        results == [i \in DOMAIN all_albums |-> match_album(all_albums[i], runs)]
        Matched(r) == r.matched
        matched_count == Count(results, Matched)
        albums2 == [i \in DOMAIN all_albums |-> results[i].album]
        stats == Put(Put(doc.statistics, "albums_with_strava_data", matched_count),
                     "albums_without_strava_data", Len(all_albums) - matched_count)
    IN IF dates = {} THEN [doc |-> doc, raised |-> "SystemExit"]
       ELSE IF \E d, e \in dates : d.aware # e.aware
            THEN [doc |-> doc, raised |-> "TypeError"]
       ELSE IF \E i \in DOMAIN results : results[i].raised # "none"
            THEN [doc |-> doc, raised |-> "TypeError"]
       ELSE [doc |-> [doc EXCEPT
                        !.watch_albums = albums2,
                        !.statistics = stats,
                        !.completed_watch_albums = sync_completed(@, albums2)],
             raised |-> "none"]

(***************************************************************************)
(* find_missing_albums.py: the records of data_maybe.json                  *)
(***************************************************************************)
\* lines 298-312: the speculative record for an album played near a run
maybe_album(album_name, artist_name, genre, plays, tracks, first, last, run) ==
    [album_name |-> album_name,
     artist_name |-> artist_name,
     genre |-> genre,
     play_count |-> plays,
     unique_tracks |-> tracks,
     first_listen |-> first,
     last_listen |-> last,
     strava_activity_id |-> run.id,
     strava_activity_name |-> Get(run, "name", ""),
     strava_start_date |-> Get(run, "start_date", <<>>),
     strava_distance_miles |-> MilesHundredths(Get(run, "distance", 0)),
     strava_moving_time_seconds |-> Get(run, "moving_time", 0),
     confidence |-> "maybe"]

(***************************************************************************)
(* merge_maybe_data.py                                                     *)
(***************************************************************************)
MaybeStravaKeys == {"strava_activity_id", "strava_activity_name", "strava_start_date",
                    "strava_distance_miles", "strava_moving_time_seconds"}

\* fold_existing without the test for an activity id on the existing record
fold_existing_Unguarded(existing_albums, maybe) ==
    LET Named(r) == r.album_name = maybe.album_name
        i == FirstIndex(existing_albums, Named)
    IN IF i = 0 THEN existing_albums
       ELSE [existing_albums EXCEPT ![i] = CopyKeys(@, maybe, MaybeStravaKeys)]

\* lines 61-72: the existing records after a speculative record of a known name
fold_existing(existing_albums, maybe) ==
    LET Named(r) == r.album_name = maybe.album_name
        i == FirstIndex(existing_albums, Named)
    IN IF i = 0 \/ Has(existing_albums[i], "strava_activity_id") THEN existing_albums
       ELSE [existing_albums EXCEPT ![i] = CopyKeys(@, maybe, MaybeStravaKeys)]

\* lines 77-92: the record appended for a speculative record of a new name
album_to_add(maybe) ==
    LET unique_tracks == Get(maybe, "unique_tracks", 1)
        a == Del(Del(maybe, "confidence"), "unique_tracks")
    IN Put(Put(Put(Put(a, "total_tracks", unique_tracks),
                          "listened_tracks", unique_tracks),
                   "completion_percentage", 1000),
           "starred", FALSE)

RECURSIVE fold_maybe(_, _, _)
\* the loop "for maybe_album in maybe_albums"; existing_album_names is built once
fold_maybe(existing_albums, existing_album_names, batch) ==
    IF batch = <<>> THEN existing_albums
    ELSE LET m == Head(batch)
         IN IF m.album_name \in existing_album_names
            THEN fold_maybe(fold_existing(existing_albums, m), existing_album_names,
                            Tail(batch))
            ELSE fold_maybe(Append(existing_albums, album_to_add(m)), existing_album_names,
                            Tail(batch))

HasStravaId(r) == Has(r, "strava_activity_id")
HasArtistName(r) == Get(r, "artist_name", "") # ""
HasGenre(r) == Get(r, "genre", "") # ""

\* the statistics block both merge scripts recompute
recount(statistics, albums) ==
    LET n == Len(albums)
        with_strava == Count(albums, HasStravaId)
        with_artist == Count(albums, HasArtistName)
        with_genre == Count(albums, HasGenre)
    IN [k \in (DOMAIN statistics) \cup
              {"watch_albums", "albums_with_strava_data", "albums_without_strava_data",
               "albums_with_artist_info", "albums_without_artist_info",
               "albums_with_genre_data", "albums_without_genre_data"} |->
          CASE k = "watch_albums" -> n
            [] k = "albums_with_strava_data" -> with_strava
            [] k = "albums_without_strava_data" -> n - with_strava
            [] k = "albums_with_artist_info" -> with_artist
            [] k = "albums_without_artist_info" -> n - with_artist
            [] k = "albums_with_genre_data" -> with_genre
            [] k = "albums_without_genre_data" -> n - with_genre
            [] OTHER -> statistics[k]]

\* the document merge_maybe_data saves (lines 49-122)
merge_maybe_data(doc, batch) ==
    LET existing_album_names == {r.album_name : r \in SeqSet(doc.watch_albums)}
        existing_albums ==
            SortByPlayCountDesc(fold_maybe(doc.watch_albums, existing_album_names, batch))
    IN [doc EXCEPT !.watch_albums = existing_albums,
                   !.statistics = recount(@, existing_albums)]

(***************************************************************************)
(* deduplicate_albums.py: main                                             *)
(***************************************************************************)
RECURSIVE FirstOccurrences_PreviousOnly(_, _)
\* FirstOccurrences remembering the previous name only
FirstOccurrences_PreviousOnly(albums, seen) ==
    IF albums = <<>> THEN <<>>
    ELSE IF Head(albums).album_name \in seen
         THEN FirstOccurrences_PreviousOnly(Tail(albums), seen)
    ELSE <<Head(albums).album_name>>
         \o FirstOccurrences_PreviousOnly(Tail(albums), {Head(albums).album_name})

RECURSIVE FirstOccurrences(_, _)
\* the keys of album_groups in insertion order
FirstOccurrences(albums, seen) ==
    IF albums = <<>> THEN <<>>
    ELSE IF Head(albums).album_name \in seen THEN FirstOccurrences(Tail(albums), seen)
    ELSE <<Head(albums).album_name>>
         \o FirstOccurrences(Tail(albums), seen \cup {Head(albums).album_name})

album_group(albums, name) ==
    LET Named(r) == r.album_name = name IN SelectSeq(albums, Named)

HasDuplicates(albums) ==
    \E i, j \in DOMAIN albums : i # j /\ albums[i].album_name = albums[j].album_name

\* data['watch_albums'] after main: untouched when no group has two records
deduplicated_albums(albums) ==
    IF ~HasDuplicates(albums) THEN albums
    ELSE LET names == FirstOccurrences(albums, {})
         IN SortByPlayCountDesc([i \in DOMAIN names |->
                                    merge_albums(album_group(albums, names[i]))])

deduplicate_albums(doc) ==
    IF ~HasDuplicates(doc.watch_albums) THEN doc
    ELSE LET d == deduplicated_albums(doc.watch_albums)
         IN [doc EXCEPT !.watch_albums = d, !.statistics = recount(@, d)]

(***************************************************************************)
(* update_ashnikko_run.py                                                  *)
(***************************************************************************)
IsSmoochies(r) ==
    Get(r, "album_name", <<>>) = Smoochies /\ Get(r, "artist_name", "") = "Ashnikko"

\* str.replace('2025-12-31', '2025-12-25')
ReplaceDec31(ts) == IF ts # <<>> /\ ts[1] = 31 THEN [ts EXCEPT ![1] = 25] ELSE ts

update_ashnikko_album(album) ==
    LET a == Put(Put(Put(Put(album, "strava_distance_miles", 335),
                                    "strava_moving_time_seconds", 2302),
                            "strava_pace_per_mile", [text |-> "11:27"]),
                 "strava_elevation_gain_meters", 3048)
        first == Get(a, "first_listen", <<>>)
    IN IF first # <<>> /\ first[1] = 31
       THEN Put(Put(a, "first_listen", ReplaceDec31(first)),
                "last_listen",
                IF Get(a, "last_listen", <<>>) # <<>>
                THEN ReplaceDec31(a["last_listen"]) ELSE ReplaceDec31(first))
       ELSE a

\* the document the script saves; the document unchanged when the album is absent
update_ashnikko_run(doc) ==
    LET i == FirstIndex(doc.watch_albums, IsSmoochies)
    IN IF i = 0 THEN doc
       ELSE [doc EXCEPT !.watch_albums[i] = update_ashnikko_album(@)]

(***************************************************************************)
(* link_ashnikko_strava.py                                                 *)
(***************************************************************************)
\* the activity id 16830927461 of the linked run, as the account's fourth id
LinkedActivityId == 4

\* lines 26-40: the fields written on the Ashnikko record
link_ashnikko_album(album) ==
    Update(album,
           [strava_activity_id |-> LinkedActivityId,
            strava_activity_name |-> "First run with new exercise buddy.",
            strava_activity_type |-> "Run",
            strava_start_date |-> Stamp(24, 930, 18),
            strava_distance_miles |-> 335,
            strava_distance_meters |-> 53918,
            strava_moving_time_seconds |-> 2302,
            strava_elapsed_time_seconds |-> 2683,
            strava_pace_per_mile |-> [text |-> "11:27"],
            strava_elevation_gain_meters |-> 3048])

\* the document the script saves (lines 21-57); the document unchanged when
\* the album is absent (the script returns before saving)
link_ashnikko_strava(doc) ==
    LET i == FirstIndex(doc.watch_albums, IsSmoochies)
        albums == [doc.watch_albums EXCEPT ![i] = link_ashnikko_album(@)]
        with_strava == Count(albums, HasStravaId)
    IN IF i = 0 THEN doc
       ELSE [doc EXCEPT
               !.watch_albums = albums,
               !.statistics = Put(Put(@, "albums_with_strava_data", with_strava),
                                  "albums_without_strava_data",
                                  Len(albums) - with_strava)]

(***************************************************************************)
(* Inputs: the exports and the Strava account of the model                 *)
(***************************************************************************)
Other == <<"Other">>
NewAlbum == <<"New">>

\* a play on the watch: 50 s track, played `play` ms, ended at `ts`
PlayRow(album, song, play, ts) ==
    [Album_Name |-> album, Container_Album_Name |-> <<>>, Container_Name |-> <<>>,
     Song_Name |-> song,
     Play_Duration_Milliseconds |-> Num(play),
     Media_Duration_In_Milliseconds |-> Num(50000),
     Device_Type |-> <<"Watch">>, Device_OS_Name |-> <<"watchOS">>,
     Client_Device_Name |-> <<>>,
     Event_End_Timestamp |-> ts, Event_Start_Timestamp |-> <<>>]

RowOne == PlayRow(<<"Smoochies">>, <<"one">>, 30000, Stamp(1, 10, 0))
RowTwoSkipped == PlayRow(<<"Smoochies">>, <<"two">>, 1000, Stamp(1, 11, 0))
RowThreeSkipped == PlayRow(<<"Smoochies">>, <<"three">>, 1000, Stamp(1, 12, 0))
RowTwo == PlayRow(<<"Smoochies">>, <<"two">>, 30000, Stamp(1, 13, 0))
RowOther == PlayRow(<<"Other", Single>>, <<"one">>, 50000, Stamp(2, 0, 0))

PlayRows == {RowOne, RowTwoSkipped, RowThreeSkipped, RowTwo, RowOther}

Activity(id, type, start, meters, seconds) ==
    [id |-> id, name |-> "run", type |-> type, start_date |-> start,
     distance |-> meters, moving_time |-> seconds, total_elevation_gain |-> 0]

\* what GET /athlete/activities holds for the account, in page order
AccountActivities ==
    << Activity(1, "Run", Stamp(1, 20, 0), 3000, 1200),
       Activity(2, "Ride", Stamp(1, 12, 0), 3200, 600),
       Activity(3, "Run", Stamp(2, 30, 0), 1609, 700) >>

AlbumNames == {Smoochies, Other, NewAlbum}

(***************************************************************************)
(* Spec: the analysis pipeline.  The export grows, the analyzer is re-run  *)
(* over it, the user stars albums, the Strava pass enriches the document.  *)
(***************************************************************************)
IdleMerge == albums_with_same_name = <<>> /\ merged = NotRun
IdleMatch == /\ album_timestamp = <<>> /\ strava_activities = <<>>
             /\ tolerance_minutes = 0 /\ best_match = NotRun
IdleSource == catalog = NotRun /\ export = NotRun /\ client = NotRun
IdlePass == /\ watch_analyzer = NotRun /\ watch_row_count = 0
            /\ music_analyzer = NotRun /\ music_row_count = 0
            /\ music_report = NoFile

Init ==
    /\ IdleSource
    /\ rows = <<>>
    /\ data = NoFile
    /\ maybe_albums = <<>>
    /\ starredByUser = {}
    /\ lastOp = "init"
    /\ raised = "none"
    /\ IdleMerge
    /\ IdleMatch
    /\ IdlePass

\* Apple appends a later play to the export
ExportRow ==
    /\ Len(rows) < MaxRows
    /\ \E row \in PlayRows :
          /\ rows # <<>> => LexLess(rows[Len(rows)].Event_End_Timestamp,
                                    row.Event_End_Timestamp)
          /\ rows' = Append(rows, row)
    /\ lastOp' = "export"
    /\ raised' = "none"
    /\ UNCHANGED <<sourceVars, passVars, data, maybe_albums, starredByUser, mergeVars, matchVars>>

\* analyze_music_watch.py main: load, process, generate_report; the summary
\* printed after the write divides by the number of reported albums
AnalyzeMusicWatch ==
    LET a == process_play_activity(NewAnalyzer, rows)
    IN /\ \E order \in Orders(a.watch_albums) :
             /\ data' = generate_report(a, order, data)
             /\ raised' = IF data'.watch_albums = <<>> THEN "ZeroDivisionError"
                          ELSE "none"
       /\ lastOp' = "analyze_music_watch"
       /\ UNCHANGED <<sourceVars, passVars, rows, maybe_albums, starredByUser, mergeVars, matchVars>>

\* toggle_star.py toggle "<album_name>"
ToggleStar ==
    /\ data # NoFile
    /\ \E album_name \in AlbumNames :
          LET Named(r) == r.album_name = album_name
              i == FirstIndex(data.watch_albums, Named)
          IN /\ data' = toggle_star(data, album_name)
             /\ raised' = IF i = 0 THEN "SystemExit" ELSE "none"
             /\ starredByUser' =
                   IF i = 0 THEN starredByUser
                   ELSE IF data'.watch_albums[i].starred
                        THEN starredByUser \cup {album_name}
                        ELSE starredByUser \ {album_name}
    /\ lastOp' = "toggle_star"
    /\ UNCHANGED <<sourceVars, passVars, rows, maybe_albums, mergeVars, matchVars>>

\* fetch_strava_data.py: the API returns the account's activities, or a
\* prefix of them when a page request fails
FetchStravaData ==
    /\ data # NoFile
    /\ \E n \in 0..Len(AccountActivities) :
          LET res == merge_strava_data(data, SubSeq(AccountActivities, 1, n))
          IN /\ data' = res.doc
             /\ raised' = res.raised
    /\ lastOp' = "fetch_strava_data"
    /\ UNCHANGED <<sourceVars, passVars, rows, maybe_albums, starredByUser, mergeVars, matchVars>>

Next == ExportRow \/ AnalyzeMusicWatch \/ ToggleStar \/ FetchStravaData

Spec == Init /\ [][Next]_vars

(***************************************************************************)
(* SpecDoc: the scripts that maintain an analyzed document: the            *)
(* speculative-match batch and its fold, deduplication, the hand edit, the *)
(* star toggle and the Strava pass.                                        *)
(***************************************************************************)
DocLogs == {<<RowOne>>, <<RowOther>>, <<RowOne, RowOther>>, <<RowOne, RowTwo, RowOther>>}

AnalyzedDocs ==
    UNION {{generate_report(process_play_activity(NewAnalyzer, log), order, NoFile) :
              order \in Orders(process_play_activity(NewAnalyzer, log).watch_albums)} :
           log \in DocLogs}

\* the analyzed documents, as they are or with the Ashnikko album starred
InitialDocs == AnalyzedDocs \cup {toggle_star(doc, Smoochies) : doc \in AnalyzedDocs}

\* load_artist_mapping of find_missing_albums.py over the same export
album_to_genre == (Smoochies :> "Pop")

\* the runs of the account that find_missing_albums.py may report on
MissingRuns == {AccountActivities[1], AccountActivities[3]}

\* an album played near a run: twice near the first run, once near the other
MaybeRecords ==
    {maybe_album(name, Get(album_to_artist, name, ""), Get(album_to_genre, name, ""),
                 IF run.id = 1 THEN 2 ELSE 1, 1, run.start_date, run.start_date, run) :
        name \in {Smoochies, NewAlbum}, run \in MissingRuns}

Batches == UNION {[1..n -> MaybeRecords] : n \in 1..MaxBatch}

InitDoc ==
    /\ IdleSource
    /\ data \in InitialDocs
    /\ rows = <<>> /\ maybe_albums = <<>> /\ starredByUser = {}
    /\ lastOp = "init" /\ raised = "none"
    /\ IdleMerge
    /\ IdleMatch
    /\ IdlePass

\* find_missing_albums.py writes data_maybe.json when it found albums
\* (maybe_albums = <<>> stands for the file not written yet; the script is
\* run once in a behaviour)
FindMissingAlbums ==
    /\ maybe_albums = <<>>
    /\ \E batch \in Batches : maybe_albums' = batch
    /\ lastOp' = "find_missing_albums"
    /\ raised' = "none"
    /\ UNCHANGED <<sourceVars, passVars, rows, data, starredByUser, mergeVars, matchVars>>

\* merge_maybe_data.py main: folds, saves, then prints its summary, which
\* reads the undefined name completed_albums (line 130)
MergeMaybeData ==
    /\ maybe_albums # <<>>
    /\ data' = merge_maybe_data(data, maybe_albums)
    /\ raised' = "NameError"
    /\ lastOp' = "merge_maybe_data"
    /\ UNCHANGED <<sourceVars, passVars, rows, maybe_albums, starredByUser, mergeVars, matchVars>>

\* deduplicate_albums.py main
DeduplicateAlbums ==
    /\ data' = deduplicate_albums(data)
    /\ raised' = "none"
    /\ lastOp' = "deduplicate_albums"
    /\ UNCHANGED <<sourceVars, passVars, rows, maybe_albums, starredByUser, mergeVars, matchVars>>

\* update_ashnikko_run.py main
UpdateAshnikkoRun ==
    /\ data' = update_ashnikko_run(data)
    /\ raised' = "none"
    /\ lastOp' = "update_ashnikko_run"
    /\ UNCHANGED <<sourceVars, passVars, rows, maybe_albums, starredByUser, mergeVars, matchVars>>

NextDoc ==
    \/ FindMissingAlbums \/ MergeMaybeData \/ DeduplicateAlbums
    \/ UpdateAshnikkoRun \/ FetchStravaData

SpecDoc == InitDoc /\ [][NextDoc]_vars

(***************************************************************************)
(* SpecStats: the scripts of SpecDoc together with the manual link of the  *)
(* Ashnikko album, every one of which rewrites the statistics block.       *)
(***************************************************************************)
\* link_ashnikko_strava.py main
LinkAshnikkoStrava ==
    /\ data' = link_ashnikko_strava(data)
    /\ raised' = "none"
    /\ lastOp' = "link_ashnikko_strava"
    /\ UNCHANGED <<sourceVars, passVars, rows, maybe_albums, starredByUser, mergeVars, matchVars>>

NextStats == NextDoc \/ LinkAshnikkoStrava

SpecStats == InitDoc /\ [][NextStats]_vars

(***************************************************************************)
(* SpecMerge: merge_albums applied to every group of records that          *)
(* data.json can hold for one album name.                                  *)
(***************************************************************************)
\* the record the analyzer writes for the album, as toggle_star may leave it
AnalyzedRecord(artist, plays, first, last, starred) ==
    [album_name |-> Smoochies, artist_name |-> artist,
     total_tracks |-> 1, listened_tracks |-> 1, completion_percentage |-> 1000,
     play_count |-> plays, first_listen |-> first, last_listen |-> last,
     starred |-> starred]

ListenRanges ==
    {<< <<>>, <<>> >>,
     << Stamp(1, 10, 0), Stamp(1, 13, 0) >>,
     << Stamp(1, 12, 0), Stamp(2, 0, 0) >>}

\* the enrichments a record can carry: a genre (add_genres.py), the metrics
\* of a matched run (merge_strava_data), the hand-entered run figures
\* (update_ashnikko_run.py, on the Ashnikko album only)
Enrich(r, genre, strava) ==
    LET g == IF genre = "" THEN r ELSE Put(r, "genre", genre)
    IN CASE strava = "matched" ->
                CopyKeys(g, extract_strava_metrics(AccountActivities[1]), StravaKeys)
         [] strava = "hand" -> update_ashnikko_album(g)
         [] OTHER -> g

GroupRecords ==
    {Enrich(AnalyzedRecord(meta[1], plays, range[1], range[2], starred), meta[2], strava) :
        meta \in {<<"", "">>, <<"Ashnikko", "Pop">>},
        plays \in 1..MaxPlays,
        range \in ListenRanges,
        starred \in BOOLEAN,
        strava \in {"none", "matched", "hand"}}
    \ {r \in {Enrich(AnalyzedRecord("", plays, range[1], range[2], starred), "", "hand") :
                 plays \in 1..MaxPlays, range \in ListenRanges, starred \in BOOLEAN} : TRUE}

Groups == UNION {[1..n -> GroupRecords] : n \in 1..MaxGroup}

InitMerge ==
    /\ IdleSource
    /\ albums_with_same_name \in Groups
    /\ merged = NotRun
    /\ rows = <<>> /\ data = NoFile /\ maybe_albums = <<>> /\ starredByUser = {}
    /\ lastOp = "init" /\ raised = "none"
    /\ IdleMatch
    /\ IdlePass

MergeAlbums ==
    /\ lastOp = "init"
    /\ merged' = merge_albums(albums_with_same_name)
    /\ lastOp' = "merge_albums"
    /\ UNCHANGED <<sourceVars, passVars, rows, data, maybe_albums, starredByUser, raised,
                   albums_with_same_name, matchVars>>

NextMerge == MergeAlbums

SpecMerge == InitMerge /\ [][NextMerge]_vars

(***************************************************************************)
(* SpecMergeOrder: merge_albums applied to larger groups of records that   *)
(* differ in play count, listen range and matched activity.                *)
(***************************************************************************)
\* the record as merge_strava_data leaves it: without a run, or with the
\* metrics of the first or of the last run of the account
WithRun(r, run) ==
    IF run = 0 THEN r
    ELSE CopyKeys(r, extract_strava_metrics(AccountActivities[run]), StravaKeys)

OrderedRecords ==
    {WithRun(AnalyzedRecord("Ashnikko", plays, range[1], range[2], FALSE), run) :
        plays \in 1..MaxPlays,
        range \in ListenRanges,
        run \in {0, 1, Len(AccountActivities)}}

OrderedGroups == UNION {[1..n -> OrderedRecords] : n \in 1..MaxOrdered}

InitMergeOrder ==
    /\ IdleSource
    /\ albums_with_same_name \in OrderedGroups
    /\ merged = NotRun
    /\ rows = <<>> /\ data = NoFile /\ maybe_albums = <<>> /\ starredByUser = {}
    /\ lastOp = "init" /\ raised = "none"
    /\ IdleMatch
    /\ IdlePass

NextMergeOrder == MergeAlbums

SpecMergeOrder == InitMergeOrder /\ [][NextMergeOrder]_vars

(***************************************************************************)
(* SpecMatch: find_matching_strava_activity applied to reference           *)
(* timestamps and activity lists of every shape.                           *)
(***************************************************************************)
ReferenceStamps ==
    {Stamp(1, 100, 0), Stamp(1, 55, 0), NaiveStamp(1, 100, 0), <<>>, Junk}

\* start_date of a candidate: <<text>>, or <<>> for an activity without the key
StartDates ==
    {<<Stamp(1, 110, 0)>>, <<Stamp(1, 55, 0)>>, <<Stamp(1, 40, 0)>>,
     <<Stamp(1, 40, 1)>>, <<Stamp(1, 39, 59)>>, <<Stamp(1, 160, 0)>>,
     <<Stamp(1, 300, 0)>>, <<Stamp(1, 70, 0)>>, <<Stamp(1, 69, 59)>>,
     <<NaiveStamp(1, 110, 0)>>, <<Junk>>, << <<>> >>, <<>>}

Candidate(id, start) ==
    IF start = <<>> THEN [id |-> id, name |-> "run", type |-> "Run"]
    ELSE [id |-> id, name |-> "run", type |-> "Run", start_date |-> start[1]]

CandidateLists ==
    UNION {{[i \in 1..n |-> Candidate(i, starts[i])] : starts \in [1..n -> StartDates]} :
           n \in 0..MaxActivities}

InitMatch ==
    /\ IdleSource
    /\ album_timestamp \in ReferenceStamps
    /\ strava_activities \in CandidateLists
    /\ tolerance_minutes \in {30, 60}
    /\ best_match = NotRun
    /\ rows = <<>> /\ data = NoFile /\ maybe_albums = <<>> /\ starredByUser = {}
    /\ lastOp = "init" /\ raised = "none"
    /\ IdleMerge
    /\ IdlePass

FindMatchingStravaActivity ==
    /\ lastOp = "init"
    /\ LET res == find_matching_strava_activity(album_timestamp, strava_activities,
                                                tolerance_minutes)
       IN /\ best_match' = res.best
          /\ raised' = res.raised
    /\ lastOp' = "find_matching_strava_activity"
    /\ UNCHANGED <<sourceVars, passVars, rows, data, maybe_albums, starredByUser, mergeVars,
                   album_timestamp, strava_activities, tolerance_minutes>>

NextMatch == FindMatchingStravaActivity

SpecMatch == InitMatch /\ [][NextMatch]_vars

(***************************************************************************)
(* SpecRows: the two analyzers read an export row by row and write their   *)
(* reports when the pass is over.                                          *)
(***************************************************************************)
MissingCell == [txt |-> "missing", val |-> 0]    \* no such column: row.get(k, 0)

WatchDevice == [Device_Type |-> <<"Watch">>, Device_OS_Name |-> <<"watchOS">>,
                Client_Device_Name |-> <<>>]
NamedWatch == [Device_Type |-> <<>>, Device_OS_Name |-> <<>>,
               Client_Device_Name |-> <<"Apple", "Watch">>]
Phone == [Device_Type |-> <<"iPhone">>, Device_OS_Name |-> <<"iOS">>,
          Client_Device_Name |-> <<"iPhone">>]

EventRow(album, container_name, song, play, media, device, ts) ==
    [Album_Name |-> album, Container_Album_Name |-> <<>>, Container_Name |-> container_name,
     Song_Name |-> song,
     Play_Duration_Milliseconds |-> play,
     Media_Duration_In_Milliseconds |-> media,
     Device_Type |-> device.Device_Type, Device_OS_Name |-> device.Device_OS_Name,
     Client_Device_Name |-> device.Client_Device_Name,
     Event_End_Timestamp |-> ts, Event_Start_Timestamp |-> <<>>]

\* no end timestamp: the start timestamp is the one the pass uses
EventBelow == [EventRow(Smoochies, <<>>, <<"two">>, Num(24999), Num(50000),
                        WatchDevice, <<>>)
                  EXCEPT !.Event_Start_Timestamp = Stamp(1, 5, 0)]
EventSingle == EventRow(<<"Smoochies", Single>>, <<>>, <<"two">>, Num(25000), Num(50000),
                        NamedWatch, Stamp(1, 12, 0))
EventContainer == EventRow(<<>>, <<" ", "Other", " ">>, <<"one">>, Num(30000), MissingCell,
                           Phone, Stamp(1, 9, 0))
EventNoAlbum == EventRow(<<>>, <<>>, <<"one">>, Num(50000), Num(50000),
                         WatchDevice, Stamp(1, 8, 0))
EventNoSong == EventRow(Smoochies, <<>>, <<" ">>, Num(50000), EmptyCell,
                        Phone, Stamp(1, 7, 0))
EventNoSongWatch == EventRow(Smoochies, <<>>, <<>>, Num(50000), Num(50000),
                             WatchDevice, Stamp(1, 6, 0))
EventBadDuration == EventRow(Smoochies, <<>>, <<"three">>, BadCell, Num(50000),
                             WatchDevice, Stamp(1, 14, 0))
EventZeroMedia == EventRow(Other, <<>>, <<"one">>, Num(30000), Num(0),
                           WatchDevice, <<>>)

EventRows == {RowOne, EventBelow, EventSingle, EventContainer, EventNoAlbum, EventNoSong,
              EventNoSongWatch, EventBadDuration, EventZeroMedia}

EventLogs == UNION {[1..n -> EventRows] : n \in 0..MaxEvents}

InitRows ==
    /\ IdleSource
    /\ rows \in EventLogs
    /\ watch_analyzer = NewAnalyzer /\ watch_row_count = 0
    /\ music_analyzer = NewMusicAnalyzer /\ music_row_count = 0
    /\ music_report = NoFile
    /\ data = NoFile /\ maybe_albums = <<>> /\ starredByUser = {}
    /\ lastOp = "init" /\ raised = "none"
    /\ IdleMerge
    /\ IdleMatch

\* WatchAlbumAnalyzer.process_play_activity: one turn of "for row in reader"
WatchProcessRow ==
    /\ watch_analyzer # NotRun
    /\ data = NoFile
    /\ watch_row_count < Len(rows)
    /\ watch_row_count' = watch_row_count + 1
    /\ watch_analyzer' = process_row(watch_analyzer, rows[watch_row_count + 1])
    /\ lastOp' = "process_play_activity"
    /\ UNCHANGED <<sourceVars, rows, data, maybe_albums, starredByUser, raised, mergeVars, matchVars,
                   music_analyzer, music_row_count, music_report>>

\* MusicAnalyzer.process_csv: one turn of "for row in reader"
MusicProcessRow ==
    /\ music_analyzer # NotRun
    /\ music_report = NoFile
    /\ music_row_count < Len(rows)
    /\ music_row_count' = music_row_count + 1
    /\ music_analyzer' = process_csv_row(music_analyzer, rows[music_row_count + 1])
    /\ lastOp' = "process_csv"
    /\ UNCHANGED <<sourceVars, rows, data, maybe_albums, starredByUser, raised, mergeVars, matchVars,
                   watch_analyzer, watch_row_count, music_report>>

\* WatchAlbumAnalyzer.generate_report after the pass, no data.json yet
WatchGenerateReport ==
    /\ watch_analyzer # NotRun
    /\ data = NoFile
    /\ watch_row_count >= Len(rows)
    /\ \E order \in Orders(watch_analyzer.watch_albums) :
          /\ data' = generate_report(watch_analyzer, order, data)
          /\ raised' = IF data'.watch_albums = <<>> THEN "ZeroDivisionError"
                       ELSE "none"
    /\ lastOp' = "generate_report"
    /\ UNCHANGED <<sourceVars, rows, maybe_albums, starredByUser, mergeVars, matchVars, passVars>>

\* MusicAnalyzer.generate_report after the pass
MusicGenerateReport ==
    /\ music_analyzer # NotRun
    /\ music_report = NoFile
    /\ music_row_count >= Len(rows)
    /\ \E order \in Orders(music_analyzer.watch_albums) :
          music_report' = music_generate_report(music_analyzer, order)
    /\ lastOp' = "music_generate_report"
    /\ UNCHANGED <<sourceVars, rows, data, maybe_albums, starredByUser, raised, mergeVars, matchVars,
                   watch_analyzer, watch_row_count, music_analyzer, music_row_count>>

NextRows == WatchProcessRow \/ MusicProcessRow \/ WatchGenerateReport \/ MusicGenerateReport

SpecRows == InitRows /\ [][NextRows]_vars

(***************************************************************************)
(* SpecCatalog: the two Container Details files add_genres.py reads, the   *)
(* first of which analyze_music_watch.py reads with artist_mapping.json.   *)
(***************************************************************************)
ContainerRow(type, desc, artists, genres) ==
    [Container_Type |-> type, Container_Description |-> desc,
     Artists |-> artists, Genres |-> genres]

ContainerRows ==
    {ContainerRow("ALBUM", <<"Ashnikko", Sep, "Smoochies">>, <<>>, <<"Pop">>),
     ContainerRow("ALBUM", <<"Ashton", Sep, "Smoochies", Single>>, <<>>, <<"Music", "Rock">>),
     ContainerRow("ALBUM", <<"Smoochies">>, <<"Ash">>, <<"Music">>),
     ContainerRow("PLAYLIST", <<"Ashnikko", Sep, "Other">>, <<>>, <<"Pop">>),
     ContainerRow("ALBUM", <<"Other">>, <<"Band">>, <<"Rock">>)}

\* a path: the rows of the file, or no file there (FileNotFoundError on open)
MissingFile == [found |-> FALSE, rows |-> <<>>]
ContainerFiles ==
    {MissingFile} \cup
    {[found |-> TRUE, rows |-> r] : r \in UNION {[1..n -> ContainerRows] : n \in 0..MaxCatalogRows}}

\* main of add_genres.py names two Container Details paths
ContainerPaths == 2

\* artist_mapping.json: absent, or the lookups fetch_artists.py saved
ApiMappings ==
    {[found |-> FALSE, artist_mapping |-> <<>>],
     [found |-> TRUE, artist_mapping |-> (Smoochies :> <<"Api">>) @@ (Other :> <<"Api">>)]}

NotLoaded == [loaded |-> FALSE, album_to_artist |-> <<>>]

InitCatalog ==
    /\ catalog \in [files : [1..ContainerPaths -> ContainerFiles], api : ApiMappings,
                     artists : {NotLoaded}]
    /\ export = NotRun /\ client = NotRun
    /\ data \in {NoFile} \cup {doc \in AnalyzedDocs :
                                   /\ Len(doc.watch_albums) = 2
                                   /\ doc.watch_albums[1].play_count = 1
                                   /\ doc.watch_albums[1].album_name = Smoochies}
    /\ rows = <<>> /\ maybe_albums = <<>> /\ starredByUser = {}
    /\ lastOp = "init" /\ raised = "none"
    /\ IdleMerge
    /\ IdleMatch
    /\ IdlePass

\* analyze_music_watch.py: analyzer.load_artist_mapping()
LoadArtistMapping ==
    /\ catalog # NotRun
    /\ ~catalog.artists.loaded
    /\ catalog' = [catalog EXCEPT
                     !.artists = [loaded |-> TRUE,
                                  album_to_artist |->
                                      load_artist_mapping(catalog.files[1], catalog.api)]]
    /\ lastOp' = "load_artist_mapping"
    /\ UNCHANGED <<rows, data, maybe_albums, starredByUser, raised, mergeVars, matchVars,
                   passVars, export, client>>

\* add_genres.py: exits with status 1 when data.json is not found
AddGenres ==
    /\ catalog # NotRun
    /\ lastOp # "add_genres"
    /\ IF data = NoFile
       THEN data' = data /\ raised' = "SystemExit"
       ELSE data' = add_genres_to_data(data, catalog.files) /\ raised' = "none"
    /\ lastOp' = "add_genres"
    /\ UNCHANGED <<rows, maybe_albums, starredByUser, mergeVars, matchVars,
                   passVars, sourceVars>>

NextCatalog == LoadArtistMapping \/ AddGenres

SpecCatalog == InitCatalog /\ [][NextCatalog]_vars

(***************************************************************************)
(* SpecSource: main of analyze_music.py or of analyze_music_watch.py over  *)
(* an export that may be absent, or undecodable from some row on.          *)
(***************************************************************************)
\* main with only the FileNotFoundError handler ending in sys.exit(1)
ExitStatus_FileNotFoundOnly(exception) ==
    IF exception = "FileNotFoundError" THEN 1 ELSE 0

\* the exit status of main: both except clauses end in sys.exit(1)
ExitStatus(exception) ==
    IF exception = "none" THEN 0
    ELSE IF exception = "FileNotFoundError" THEN 1
    ELSE 1

SourceRows == {RowOne, EventContainer, EventNoSong}

SourceLogs == UNION {[1..n -> SourceRows] : n \in 0..MaxEvents}

\* the export as open() and the decoder find it: opens is false when the
\* file is absent; fails_at = k > 0 when reading the k-th row (or the end of
\* the file, k = rows + 1) raises UnicodeDecodeError; prior is the output
\* document found when the run starts
Exports ==
    [script : {"analyze_music", "analyze_music_watch"},
     opens : BOOLEAN,
     fails_at : 0..(MaxEvents + 1),
     prior : {NoFile} \cup {doc \in AnalyzedDocs :
                               /\ Len(doc.watch_albums) = 2
                               /\ doc.watch_albums[1].play_count = 1
                               /\ doc.watch_albums[1].album_name = Smoochies}]

InitSource ==
    /\ rows \in SourceLogs
    /\ export \in Exports
    /\ export.fails_at <= Len(rows) + 1
    /\ catalog = NotRun /\ client = NotRun
    /\ watch_analyzer = NewAnalyzer /\ watch_row_count = 0
    /\ music_analyzer = NewMusicAnalyzer /\ music_row_count = 0
    /\ music_report = NoFile
    /\ data = export.prior
    /\ export.script = "analyze_music" => export.prior = NoFile
    /\ maybe_albums = <<>> /\ starredByUser = {}
    /\ lastOp = "init" /\ raised = "none"
    /\ IdleMerge
    /\ IdleMatch

\* the script of this run is still running
Running(script) ==
    /\ export # NotRun
    /\ export.script = script
    /\ raised = "none"
    /\ lastOp \notin {"generate_report", "music_generate_report"}

\* analyze_music.py: open() or the next read of the export raises
MusicMainFails ==
    /\ Running("analyze_music")
    /\ ~export.opens \/ export.fails_at = music_row_count + 1
    /\ raised' = IF ~export.opens THEN "FileNotFoundError" ELSE "UnicodeDecodeError"
    /\ lastOp' = "main"
    /\ UNCHANGED <<rows, data, maybe_albums, starredByUser, mergeVars, matchVars,
                   passVars, sourceVars>>

\* analyze_music.py: one row of process_csv
MusicMainRow ==
    /\ Running("analyze_music")
    /\ export.opens /\ export.fails_at # music_row_count + 1
    /\ MusicProcessRow

\* analyze_music.py: generate_report after the pass
MusicMainReport ==
    /\ Running("analyze_music")
    /\ export.opens /\ export.fails_at # music_row_count + 1
    /\ MusicGenerateReport

\* analyze_music_watch.py: open() or the next read of the export raises
WatchMainFails ==
    /\ Running("analyze_music_watch")
    /\ ~export.opens \/ export.fails_at = watch_row_count + 1
    /\ raised' = IF ~export.opens THEN "FileNotFoundError" ELSE "UnicodeDecodeError"
    /\ lastOp' = "main"
    /\ UNCHANGED <<rows, data, maybe_albums, starredByUser, mergeVars, matchVars,
                   passVars, sourceVars>>

\* analyze_music_watch.py: one row of process_play_activity
WatchMainRow ==
    /\ Running("analyze_music_watch")
    /\ export.opens /\ export.fails_at # watch_row_count + 1
    /\ watch_row_count < Len(rows)
    /\ watch_row_count' = watch_row_count + 1
    /\ watch_analyzer' = process_row(watch_analyzer, rows[watch_row_count + 1])
    /\ lastOp' = "process_play_activity"
    /\ UNCHANGED <<rows, data, maybe_albums, starredByUser, raised, mergeVars, matchVars,
                   music_analyzer, music_row_count, music_report, sourceVars>>

\* analyze_music_watch.py: generate_report after the pass, over the document
\* found; the summary divides by the number of albums after the file is written
WatchMainReport ==
    /\ Running("analyze_music_watch")
    /\ export.opens /\ export.fails_at # watch_row_count + 1
    /\ watch_row_count >= Len(rows)
    /\ \E order \in Orders(watch_analyzer.watch_albums) :
          /\ data' = generate_report(watch_analyzer, order, data)
          /\ raised' = IF data'.watch_albums = <<>> THEN "ZeroDivisionError"
                       ELSE "none"
    /\ lastOp' = "generate_report"
    /\ UNCHANGED <<rows, maybe_albums, starredByUser, mergeVars, matchVars, passVars,
                   sourceVars>>

NextSource ==
    \/ MusicMainFails \/ MusicMainRow \/ MusicMainReport
    \/ WatchMainFails \/ WatchMainRow \/ WatchMainReport

SpecSource == InitSource /\ [][NextSource]_vars

(***************************************************************************)
(* SpecFetch: StravaClient.get_activities on a fresh client, against an    *)
(* account of a few pages of activities.  Every GET is answered by the     *)
(* page asked for, by 401, by a server error, or fails to connect.         *)
(***************************************************************************)
\* how the server answers one GET /athlete/activities
Answers == {"ok", "unauthorized", "server_error", "connection_error"}

\* StravaClient.__init__ and the locals of get_activities before the loop;
\* limited = FALSE stands for max_requests = None
NewClient(limited, max_requests, pages) ==
    [request_count |-> 0, page |-> 1, activities |-> <<>>,
     limited |-> limited, max_requests |-> max_requests,
     pages |-> pages, pc |-> "loop"]

\* "if max_requests and self.request_count >= max_requests" (line 94)
limit_reached(c) ==
    c.limited /\ c.max_requests # 0 /\ c.request_count >= c.max_requests

\* lines 129-139 on a 200 response: the page is added, or the loop ends on
\* an empty page
take_page(c) ==
    IF c.page > c.pages THEN [c EXCEPT !.pc = "returned"]
    ELSE [c EXCEPT !.activities = Append(@, c.page), !.page = @ + 1]

\* one GET and what follows it when no retry is made: requests.get raising
\* leaves request_count alone, any response counts as a request
answered(c, answer) ==
    CASE answer = "connection_error" -> [c EXCEPT !.pc = "returned"]
      [] answer = "ok" -> take_page([c EXCEPT !.request_count = @ + 1])
      [] OTHER -> [c EXCEPT !.request_count = @ + 1, !.pc = "returned"]

\* one iteration of "while True" (lines 92-143): first is the answer to the
\* GET, refreshed the result of refresh_access_token, second the answer to
\* the repeated GET
get_activities_iteration(c, first, refreshed, second) ==
    IF limit_reached(c) THEN [c EXCEPT !.pc = "returned"]
    ELSE IF first # "unauthorized" THEN answered(c, first)
    ELSE IF ~refreshed THEN [c EXCEPT !.request_count = @ + 1, !.pc = "returned"]
    ELSE answered([c EXCEPT !.request_count = @ + 1], second)

Budgets == 0..MaxBudget

InitFetch ==
    /\ \E limited \in BOOLEAN, n \in Budgets, pages \in 0..MaxPages :
          /\ ~limited => n = 0
          /\ client = NewClient(limited, n, pages)
    /\ catalog = NotRun /\ export = NotRun
    /\ rows = <<>> /\ data = NoFile /\ maybe_albums = <<>> /\ starredByUser = {}
    /\ lastOp = "init" /\ raised = "none"
    /\ IdleMerge
    /\ IdleMatch
    /\ IdlePass

GetActivitiesIteration ==
    /\ client.pc = "loop"
    /\ \E first, second \in Answers, refreshed \in BOOLEAN :
          client' = get_activities_iteration(client, first, refreshed, second)
    /\ lastOp' = "get_activities"
    /\ UNCHANGED <<catalog, export, passVars, rows, data, maybe_albums, starredByUser,
                   raised, mergeVars, matchVars>>

NextFetch == GetActivitiesIteration

SpecFetch == InitFetch /\ [][NextFetch]_vars

\* the loop is a sequential program: an iteration that can run does run
FairFetch == SpecFetch /\ WF_vars(NextFetch)

(***************************************************************************)
(* SpecStar: toggle_star.py toggle "<album_name>" over the documents the   *)
(* scripts leave behind: analyzed, folded with speculative matches (which  *)
(* can hold two records of one name), and with records that carry no       *)
(* starred key, which toggle_star reads as not starred.                    *)
(***************************************************************************)
\* the document with the starred key absent from the records at indexes
Unflagged(doc, indexes) ==
    [doc EXCEPT !.watch_albums =
        [i \in DOMAIN @ |-> IF i \in indexes THEN Del(@[i], "starred") ELSE @[i]]]

FoldedDocs == {merge_maybe_data(doc, batch) : doc \in AnalyzedDocs, batch \in Batches}

StarDocs ==
    UNION {{Unflagged(doc, indexes) : indexes \in SUBSET (DOMAIN doc.watch_albums)} :
           doc \in InitialDocs \cup FoldedDocs}

InitStar ==
    /\ IdleSource
    /\ data \in StarDocs \cup {NoFile}
    /\ rows = <<>> /\ maybe_albums = <<>> /\ starredByUser = {}
    /\ lastOp = "init" /\ raised = "none"
    /\ IdleMerge
    /\ IdleMatch
    /\ IdlePass

\* load_data when data.json does not exist (lines 14-16)
ToggleStarNoFile ==
    /\ data = NoFile
    /\ raised' = "SystemExit"
    /\ lastOp' = "toggle_star"
    /\ UNCHANGED <<sourceVars, passVars, rows, data, maybe_albums, starredByUser,
                   mergeVars, matchVars>>

NextStar == ToggleStar \/ ToggleStarNoFile

SpecStar == InitStar /\ [][NextStar]_vars

(***************************************************************************)
(* SpecShards: MusicAnalyzer alone reads an export of plays of two albums  *)
(* on a watch and on a phone, with and without timestamps.                 *)
(***************************************************************************)
ShardRows == {RowOne, EventBelow, EventSingle, EventContainer, EventNoSong, EventZeroMedia}

ShardLogs == UNION {[1..n -> ShardRows] : n \in 0..MaxEvents}

InitShards ==
    /\ IdleSource
    /\ rows \in ShardLogs
    /\ watch_analyzer = NotRun /\ watch_row_count = 0
    /\ music_analyzer = NewMusicAnalyzer /\ music_row_count = 0
    /\ music_report = NoFile
    /\ data = NoFile /\ maybe_albums = <<>> /\ starredByUser = {}
    /\ lastOp = "init" /\ raised = "none"
    /\ IdleMerge
    /\ IdleMatch

NextShards == MusicProcessRow \/ MusicGenerateReport

SpecShards == InitShards /\ [][NextShards]_vars

(***************************************************************************)
(* SpecReport: the reports of a finished pass over an export of one album  *)
(* with `total` distinct tracks, one play each on the watch, the first     *)
(* `listened` of them listened.  The export itself is not kept in the      *)
(* state.                                                                  *)
(***************************************************************************)
TrackNames(n) == {<<i>> : i \in 1..n}

PlayedWatchAnalyzer(total, listened) ==
    IF total = 0 THEN NewAnalyzer
    ELSE [album_tracks |-> (Other :> TrackNames(total)),
          listened_tracks |-> IF listened = 0 THEN <<>> ELSE (Other :> TrackNames(listened)),
          album_play_counts |-> (Other :> total),
          watch_albums |-> {Other},
          album_first_listen |-> (Other :> Stamp(1, 10, 0)),
          album_last_listen |-> (Other :> Stamp(1, 10, 0)),
          skipped_rows |-> 0]

PlayedMusicAnalyzer(total, listened) ==
    IF total = 0 THEN NewMusicAnalyzer
    ELSE [album_tracks |-> (Other :> TrackNames(total)),
          album_order |-> <<Other>>,
          listened_tracks |-> IF listened = 0 THEN <<>> ELSE (Other :> TrackNames(listened)),
          album_play_counts |-> (Other :> total),
          watch_albums |-> {Other},
          album_first_listen |-> (Other :> Stamp(1, 10, 0)),
          album_last_listen |-> (Other :> Stamp(1, 10, 0)),
          skipped_rows |-> 0]

InitReport ==
    /\ IdleSource
    /\ \E total \in 0..MaxTracks : \E listened \in 0..total :
          /\ watch_analyzer = PlayedWatchAnalyzer(total, listened)
          /\ music_analyzer = PlayedMusicAnalyzer(total, listened)
          /\ watch_row_count = total
          /\ music_row_count = total
    /\ music_report = NoFile
    /\ rows = <<>> /\ data = NoFile /\ maybe_albums = <<>> /\ starredByUser = {}
    /\ lastOp = "init" /\ raised = "none"
    /\ IdleMerge
    /\ IdleMatch

NextReport == WatchGenerateReport \/ MusicGenerateReport

SpecReport == InitReport /\ [][NextReport]_vars

(***************************************************************************)
(* Claims about the analysis pipeline (Spec)                               *)
(***************************************************************************)
\* C1: an album the user starred (and did not un-star since) is starred in
\* every persisted document that lists it, however many times the analyzer
\* was re-run, also after the album dropped out of the report and re-entered.
C1_StarredSurvivesReruns ==
    data # NoFile =>
        \A i \in DOMAIN data.watch_albums :
            data.watch_albums[i].album_name \in starredByUser
                => data.watch_albums[i].starred

\* C2: when generate_report writes over an existing document, every strava_*
\* field a persisted record carried is on the record of the same album in
\* the newly written document, with the same value.
C2_StravaFieldsSurviveRerun ==
    [][(lastOp' = "analyze_music_watch" /\ data # NoFile) =>
        \A i \in DOMAIN data.watch_albums : \A j \in DOMAIN data'.watch_albums :
            data.watch_albums[i].album_name = data'.watch_albums[j].album_name =>
                \A k \in StravaKeys \cap DOMAIN data.watch_albums[i] :
                    /\ k \in DOMAIN data'.watch_albums[j]
                    /\ data'.watch_albums[j][k] = data.watch_albums[i][k]]_vars

(***************************************************************************)
(* Claims about document maintenance (SpecDoc)                             *)
(***************************************************************************)
NameCount(albums, name) == Cardinality({i \in DOMAIN albums : albums[i].album_name = name})

\* C3: deduplicating a record set and deduplicating the result again yields
\* the result of the first pass; a document that deduplicate_albums.py has
\* just written is left as it is by a second run.
C3_IdempotentDedup ==
    LET D == deduplicated_albums(data.watch_albums)
    IN /\ deduplicated_albums(D) = D
       /\ deduplicate_albums(deduplicate_albums(data)) = deduplicate_albums(data)
       /\ lastOp = "deduplicate_albums" => deduplicate_albums(data) = data

\* the deduplicator has merged two speculative records of one album (only a
\* merge gives such a record a listen range of two different days)
C3_Witness ==
    /\ lastOp = "deduplicate_albums"
    /\ \E i \in DOMAIN data.watch_albums :
          /\ data.watch_albums[i].album_name = NewAlbum
          /\ data.watch_albums[i].first_listen # data.watch_albums[i].last_listen

CrossSourceKeys == {"artist_name", "genre"} \cup StravaKeys
\* the record has a value for the field (an empty artist or genre text is none)
Present(r, k) == Has(r, k) /\ (k \in {"artist_name", "genre"} => r[k] # "")

BodyKeys == {"play_count", "total_tracks", "listened_tracks", "completion_percentage",
             "first_listen", "last_listen", "starred"}

\* C6: merging never overwrites a present value: the fold of a speculative
\* match leaves every field present on the existing record unchanged, and
\* the record merge_albums returns has the base record's value for every
\* cross-source field that is present on the base.
C6_NeverOverwritesPresentValue ==
    [][/\ lastOp' = "merge_maybe_data" =>
            \A i \in DOMAIN data.watch_albums :
                \E j \in DOMAIN data'.watch_albums :
                    \A k \in DOMAIN data.watch_albums[i] :
                        /\ k \in DOMAIN data'.watch_albums[j]
                        /\ data'.watch_albums[j][k] = data.watch_albums[i][k]
       /\ lastOp' = "deduplicate_albums" =>
            \A name \in {r.album_name : r \in SeqSet(data.watch_albums)} :
                LET base == SortByPlayCountDesc(album_group(data.watch_albums, name))[1]
                IN \E j \in DOMAIN data'.watch_albums :
                      /\ data'.watch_albums[j].album_name = name
                      /\ \A k \in CrossSourceKeys \cap DOMAIN base :
                            /\ k \in DOMAIN data'.watch_albums[j]
                            /\ data'.watch_albums[j][k] = base[k]]_vars

\* the speculative records of the batch whose name is in the document
Colliding(albums, batch) ==
    {m \in SeqSet(batch) : \E i \in DOMAIN albums : albums[i].album_name = m.album_name}

FirstNamed(s, name) == s[CHOOSE i \in DOMAIN s :
                            /\ s[i].album_name = name
                            /\ \A j \in 1..(i - 1) : s[j].album_name # name]

\* C7 (as claimed): folding a speculative match whose album_name is that of
\* an existing record keeps the existing record's body fields, gives it every
\* cross-source field (artist, genre, strava_*) it lacked and the speculative
\* record has, and appends nothing under that name.
C7_FoldGainsEveryCrossSourceField ==
    [][lastOp' = "merge_maybe_data" =>
        \A m \in Colliding(data.watch_albums, maybe_albums) :
            LET e == FirstNamed(data.watch_albums, m.album_name)
            IN /\ NameCount(data'.watch_albums, m.album_name)
                    = NameCount(data.watch_albums, m.album_name)
               /\ \E j \in DOMAIN data'.watch_albums :
                     LET n == data'.watch_albums[j]
                     IN /\ n.album_name = m.album_name
                        /\ \A k \in BodyKeys \cap DOMAIN e : Has(n, k) /\ n[k] = e[k]
                        /\ \A k \in CrossSourceKeys :
                              (~Present(e, k) /\ Present(m, k)) => Present(n, k)]_vars

\* C7 (amended): the existing record (the first of that name) keeps all its
\* fields, artist_name and genre included; if it has no strava_activity_id it
\* takes strava_activity_id, _name, _start_date, _distance_miles and
\* _moving_time_seconds from the first speculative record of its name, and
\* otherwise it is written back unchanged; nothing is appended under the name.
C7_FoldTakesStravaBlockOnly ==
    [][lastOp' = "merge_maybe_data" =>
        \A name \in {m.album_name : m \in Colliding(data.watch_albums, maybe_albums)} :
            LET e == FirstNamed(data.watch_albums, name)
                m == FirstNamed(maybe_albums, name)
                expected == IF Has(e, "strava_activity_id") THEN e
                            ELSE [k \in DOMAIN e \cup MaybeStravaKeys |->
                                    IF k \in MaybeStravaKeys THEN m[k] ELSE e[k]]
            IN /\ NameCount(data'.watch_albums, name) = NameCount(data.watch_albums, name)
               /\ \E j \in DOMAIN data'.watch_albums : data'.watch_albums[j] = expected]_vars

\* a fold has given an analyzed record (no genre key, no activity type) the
\* activity of a speculative match
C7_Witness ==
    /\ lastOp = "merge_maybe_data"
    /\ \E i \in DOMAIN data.watch_albums :
          /\ data.watch_albums[i].album_name = Smoochies
          /\ Has(data.watch_albums[i], "strava_activity_id")
          /\ ~Has(data.watch_albums[i], "strava_activity_type")
          /\ ~Has(data.watch_albums[i], "genre")
    /\ \E m \in SeqSet(maybe_albums) : m.album_name = Smoochies /\ m.genre = "Pop"

\* C8: after a deduplication pass, and after folding a batch into a record
\* set with at most one record per album_name, watch_albums has at most one
\* record per album_name.
C8_OneRecordPerKey ==
    [][/\ lastOp' = "deduplicate_albums" => ~HasDuplicates(data'.watch_albums)
       /\ (lastOp' = "merge_maybe_data" /\ ~HasDuplicates(data.watch_albums))
             => ~HasDuplicates(data'.watch_albums)]_vars

(***************************************************************************)
(* Claims about merge_albums (SpecMerge)                                   *)
(***************************************************************************)
SortedGroup == SortByPlayCountDesc(albums_with_same_name)
BaseRecord == SortedGroup[1]
\* positions, in descending play-count order, of the folded records that
\* carry an activity id
Donors == {i \in 2..Len(SortedGroup) : TruthyId(SortedGroup[i])}

\* C4: if any record of the group is starred, the merged record is starred.
C4_StarredMonotone ==
    merged # NotRun =>
        ((\E i \in DOMAIN albums_with_same_name : albums_with_same_name[i].starred)
            => merged.starred)

\* the base is not starred, a folded record is
C4_Witness ==
    /\ merged # NotRun
    /\ Len(albums_with_same_name) >= 2
    /\ ~BaseRecord.starred
    /\ \E i \in 2..Len(SortedGroup) : SortedGroup[i].starred

C9_MatcherNeverRaises == lastOp = "find_matching_strava_activity" => raised = "none"

\* the start-time delta of candidate i in seconds, where it exists: both
\* texts are ISO-8601 and both or neither name a timezone
HasDelta(i) ==
    /\ Has(strava_activities[i], "start_date")
    /\ parse_iso_timestamp(album_timestamp).ok
    /\ parse_iso_timestamp(strava_activities[i].start_date).ok
    /\ parse_iso_timestamp(album_timestamp).aware
         = parse_iso_timestamp(strava_activities[i].start_date).aware
Delta(i) == Abs(parse_iso_timestamp(album_timestamp).secs
                - parse_iso_timestamp(strava_activities[i].start_date).secs)
Within == {i \in DOMAIN strava_activities : HasDelta(i) /\ Delta(i) <= tolerance_minutes * 60}

\* C10: the matcher returns the first activity in list order whose delta is
\* minimal among the activities within tolerance, and returns no match
\* exactly when no activity is within tolerance.
C10_NearestMatch ==
    lastOp = "find_matching_strava_activity" =>
        /\ raised = "none"
        /\ IF Within = {} THEN best_match = NoMatch
           ELSE best_match =
                  strava_activities[CHOOSE i \in Within :
                      /\ \A j \in Within : Delta(i) <= Delta(j)
                      /\ \A j \in Within : (j < i) => Delta(j) > Delta(i)]

\* C11: with a single candidate whose delta exists, the matcher returns it
\* when the delta is exactly tolerance_minutes * 60 seconds and returns no
\* match when the delta is one second more, for the caller's tolerance (30,
\* the default, or 60, the value merge_strava_data passes).
C11_ToleranceInclusive ==
    (/\ lastOp = "find_matching_strava_activity"
     /\ Len(strava_activities) = 1
     /\ HasDelta(1))
    => /\ raised = "none"
       /\ Delta(1) = tolerance_minutes * 60 => best_match = strava_activities[1]
       /\ Delta(1) = tolerance_minutes * 60 + 1 => best_match = NoMatch

\* a single candidate exactly 30 minutes from the reference was returned
C11_Witness ==
    /\ lastOp = "find_matching_strava_activity"
    /\ Len(strava_activities) = 1
    /\ HasDelta(1)
    /\ tolerance_minutes = 30
    /\ Delta(1) = 1800
    /\ best_match = strava_activities[1]

(***************************************************************************)
(* Claims about the passes over the export (SpecRows, SpecReport)          *)
(***************************************************************************)
ListenedWithinAll(a) ==
    \A k \in DOMAIN a.listened_tracks :
        Has(a.album_tracks, k) /\ a.listened_tracks[k] \subseteq a.album_tracks[k]

\* C12: after every row either analyzer has read (every prefix of its pass),
\* the listened tracks of every album are a subset of all its tracks.
C12_ListenedSubsetOfAll ==
    watch_analyzer # NotRun =>
        ListenedWithinAll(watch_analyzer) /\ ListenedWithinAll(music_analyzer)

\* in the middle of the watch pass an album has a listened track and a
\* track that was not listened
C12_Witness ==
    /\ watch_analyzer # NotRun
    /\ 0 < watch_row_count /\ watch_row_count < Len(rows)
    /\ Has(watch_analyzer.listened_tracks, Smoochies)
    /\ watch_analyzer.listened_tracks[Smoochies] # {}
    /\ watch_analyzer.listened_tracks[Smoochies] # watch_analyzer.album_tracks[Smoochies]

RatioWithinBounds(a) ==
    \A k \in DOMAIN a.album_tracks :
        Cardinality(a.album_tracks[k]) > 0 =>
            /\ 0 <= Cardinality(Get(a.listened_tracks, k, {}))
            /\ Cardinality(Get(a.listened_tracks, k, {})) <= Cardinality(a.album_tracks[k])

RecordWithinBounds(r) ==
    r.total_tracks > 0 =>
        /\ 0 <= r.listened_tracks /\ r.listened_tracks <= r.total_tracks
        /\ 0 <= r.completion_percentage /\ r.completion_percentage <= 1000

\* C13: for every album with at least one track the completion ratio is in
\* [0, 1], and every record of the reports has listened_tracks within
\* 0..total_tracks and completion_percentage within [0, 100], whatever rows
\* were read.
C13_CompletionBounds ==
    watch_analyzer # NotRun =>
        /\ RatioWithinBounds(watch_analyzer) /\ RatioWithinBounds(music_analyzer)
        /\ data # NoFile =>
              /\ \A i \in DOMAIN data.watch_albums : RecordWithinBounds(data.watch_albums[i])
              /\ \A i \in DOMAIN data.completed_watch_albums :
                    RecordWithinBounds(data.completed_watch_albums[i])
        /\ music_report # NoFile =>
              /\ \A i \in DOMAIN music_report.watch_albums :
                    RecordWithinBounds(music_report.watch_albums[i])
              /\ \A i \in DOMAIN music_report.completed_albums :
                    RecordWithinBounds(music_report.completed_albums[i])

\* both reports are written; an album played more often than it has tracks
\* is reported with half of its tracks listened
C13_Witness ==
    /\ data # NoFile /\ music_report # NoFile
    /\ \E i \in DOMAIN music_report.watch_albums :
          /\ music_report.watch_albums[i].total_tracks = 2
          /\ music_report.watch_albums[i].listened_tracks = 1
          /\ music_report.watch_albums[i].completion_percentage = 500
          /\ music_report.watch_albums[i].play_count = 3
    /\ \E i \in DOMAIN data.watch_albums : data.watch_albums[i].completion_percentage = 500

\* the album with at least one track whose exact ratio meets the threshold
RatioMeetsThreshold(a, k) ==
    /\ Has(a.album_tracks, k)
    /\ Cardinality(a.album_tracks[k]) >= 1
    /\ 100 * Cardinality(Get(a.listened_tracks, k, {})) >= 70 * Cardinality(a.album_tracks[k])

\* C14: an album is in the completed list exactly when it has at least one
\* track and |listened| / |all| >= 0.70, in completed_albums of
\* analyze_music.py and in completed_watch_albums of analyze_music_watch.py.
C14_CompletedIffRatioMeetsThreshold ==
    /\ music_report # NoFile =>
          \A k \in DOMAIN music_analyzer.album_tracks :
              (\E i \in DOMAIN music_report.completed_albums :
                    music_report.completed_albums[i].album_name = k)
              <=> RatioMeetsThreshold(music_analyzer, k)
    /\ (data # NoFile /\ watch_analyzer # NotRun) =>
          \A k \in DOMAIN watch_analyzer.album_tracks :
              (\E i \in DOMAIN data.completed_watch_albums :
                    data.completed_watch_albums[i].album_name = k)
              <=> RatioMeetsThreshold(watch_analyzer, k)

\* the rule of the listen classification on the cells of a row
ListenedByRule(row) ==
    LET p == row.Play_Duration_Milliseconds
        m == row.Media_Duration_In_Milliseconds
    IN /\ m.txt = "num" /\ m.val # 0
       /\ p.txt # "bad"
       /\ IF m.val > 0 THEN 10 * p.val >= 5 * m.val ELSE 10 * p.val <= 5 * m.val

EndsWithSingle(name) == name # <<>> /\ name[Len(name)] = Single

\* the first non-empty of Album Name, Container Album Name, Container Name,
\* stripped, without a trailing ' - Single'
EntityKey(row) ==
    LET first == IF row.Album_Name # <<>> THEN row.Album_Name
                 ELSE IF row.Container_Album_Name # <<>> THEN row.Container_Album_Name
                 ELSE row.Container_Name
        stripped == Strip(first)
    IN IF EndsWithSingle(stripped) THEN SubSeq(stripped, 1, Len(stripped) - 1)
       ELSE stripped

\* C16: every component derives the same key from a row, the first
\* non-empty candidate column without the ' - Single' suffix, and no key of
\* an aggregate or of a written report ends with ' - Single'.
C16_SameKeyEverywhere ==
    watch_analyzer # NotRun =>
        /\ \A i \in DOMAIN rows :
              (i <= music_row_count /\ i <= watch_row_count) =>
                  /\ get_album_key(rows[i]) = EntityKey(rows[i])
                  /\ WatchAlbumKey(rows[i]) = EntityKey(rows[i])
                  /\ near_run_album_name(rows[i]) = EntityKey(rows[i])
        /\ \A k \in DOMAIN music_analyzer.album_tracks : ~EndsWithSingle(k)
        /\ \A k \in DOMAIN watch_analyzer.album_tracks : ~EndsWithSingle(k)
        /\ music_report # NoFile =>
              \A i \in DOMAIN music_report.watch_albums :
                  ~EndsWithSingle(music_report.watch_albums[i].album_name)
        /\ data # NoFile =>
              \A i \in DOMAIN data.watch_albums :
                  ~EndsWithSingle(data.watch_albums[i].album_name)

Aggregates(a) == <<a.album_tracks, a.listened_tracks, a.album_play_counts,
                   a.album_first_listen, a.album_last_listen, a.watch_albums>>

\* C17 (as claimed): a row whose derived key or track name is empty adds one
\* to the skipped counter of the analyzer that reads it and leaves every
\* aggregate as it was, and the pass goes on to the next row.
C17_SkippedRowCounted ==
    [][/\ music_row_count' = music_row_count + 1 =>
            LET row == rows[music_row_count + 1]
            IN (get_album_key(row) = <<>> \/ Strip(row.Song_Name) = <<>>) =>
                  /\ music_analyzer'.skipped_rows = music_analyzer.skipped_rows + 1
                  /\ Aggregates(music_analyzer') = Aggregates(music_analyzer)
       /\ watch_row_count' = watch_row_count + 1 =>
            LET row == rows[watch_row_count + 1]
            IN (WatchAlbumKey(row) = <<>> \/ Strip(row.Song_Name) = <<>>) =>
                  /\ watch_analyzer'.skipped_rows = watch_analyzer.skipped_rows + 1
                  /\ Aggregates(watch_analyzer') = Aggregates(watch_analyzer)]_vars

\* C17 (amended): MusicAnalyzer counts every such row as skipped;
\* WatchAlbumAnalyzer counts it only when the play was on a watch, and passes
\* over a play on another device without counting it; in every case the
\* aggregates are left as they were and the pass goes on to the next row.
C17_SkippedRowCountedOnWatch ==
    [][/\ music_row_count' = music_row_count + 1 =>
            LET row == rows[music_row_count + 1]
            IN (get_album_key(row) = <<>> \/ Strip(row.Song_Name) = <<>>) =>
                  /\ music_analyzer'.skipped_rows = music_analyzer.skipped_rows + 1
                  /\ Aggregates(music_analyzer') = Aggregates(music_analyzer)
                  /\ music_analyzer'.album_order = music_analyzer.album_order
       /\ watch_row_count' = watch_row_count + 1 =>
            LET row == rows[watch_row_count + 1]
            IN (WatchAlbumKey(row) = <<>> \/ Strip(row.Song_Name) = <<>>) =>
                  /\ watch_analyzer'.skipped_rows =
                        watch_analyzer.skipped_rows + (IF is_watch_device(row) THEN 1 ELSE 0)
                  /\ Aggregates(watch_analyzer') = Aggregates(watch_analyzer)]_vars

\* both analyzers have read a play on a phone without a track name and gone
\* on to the next row: MusicAnalyzer counted it, WatchAlbumAnalyzer did not
C17_Witness ==
    /\ Len(rows) >= 2 /\ rows[1] = EventNoSong /\ rows[2] = EventNoAlbum
    /\ music_row_count = 2 /\ watch_row_count = 2
    /\ music_analyzer.skipped_rows = 2
    /\ watch_analyzer.skipped_rows = 1
    /\ music_analyzer.album_order = <<>>

(***************************************************************************)
(* Claims about the base, the order and the listen range of merge_albums   *)
(* (SpecMerge, SpecMergeOrder)                                             *)
(***************************************************************************)
MaxPlayCount ==
    CHOOSE n \in {albums_with_same_name[i].play_count : i \in DOMAIN albums_with_same_name} :
        \A i \in DOMAIN albums_with_same_name : albums_with_same_name[i].play_count <= n

\* the first record of the input with the highest play count
HighestFirst ==
    albums_with_same_name[CHOOSE i \in DOMAIN albums_with_same_name :
        /\ albums_with_same_name[i].play_count = MaxPlayCount
        /\ \A j \in 1..(i - 1) : albums_with_same_name[j].play_count # MaxPlayCount]

\* the fields no merge rule is about
UnmergedKeys == {"album_name", "artist_name", "genre", "play_count", "total_tracks",
                 "listened_tracks", "completion_percentage"}

\* C18: the merged play_count is the maximum play_count of the group (not
\* the sum), and every field no merge rule is about (album_name,
\* artist_name, genre, track counts, completion) is as on the record with
\* the highest play count, absent when absent there.
C18_BaseHasHighestPlayCount ==
    merged # NotRun =>
        /\ merged.play_count = MaxPlayCount
        /\ \A k \in UnmergedKeys :
              /\ Has(merged, k) <=> Has(HighestFirst, k)
              /\ Has(merged, k) => merged[k] = HighestFirst[k]

\* A (fewer plays, not starred, no genre) then B (more plays, starred,
\* genre Pop) were merged to B's play count, starred, genre Pop
C18_Witness ==
    /\ merged # NotRun
    /\ Len(albums_with_same_name) = 2
    /\ albums_with_same_name[1].play_count < albums_with_same_name[2].play_count
    /\ ~albums_with_same_name[1].starred /\ ~Has(albums_with_same_name[1], "genre")
    /\ albums_with_same_name[2].starred /\ Get(albums_with_same_name[2], "genre", "") = "Pop"
    /\ merged.play_count = albums_with_same_name[2].play_count
    /\ merged.starred /\ Get(merged, "genre", "") = "Pop"

Orderings(n) == {p \in [1..n -> 1..n] : \A i, j \in 1..n : p[i] = p[j] => i = j}

Reordered(group, p) == [i \in DOMAIN group |-> group[p[i]]]

\* C19: when one record alone has the highest play count, merge_albums
\* returns the same record for every order of the group.
C19_OrderIndependent ==
    (/\ merged # NotRun
     /\ Cardinality({i \in DOMAIN albums_with_same_name :
                        albums_with_same_name[i].play_count = MaxPlayCount}) = 1)
    => \A p \in Orderings(Len(albums_with_same_name)) :
          merge_albums(Reordered(albums_with_same_name, p)) = merged

FirstListens ==
    {Get(albums_with_same_name[i], "first_listen", <<>>) : i \in DOMAIN albums_with_same_name}
        \ {<<>>}

LastListens ==
    {Get(albums_with_same_name[i], "last_listen", <<>>) : i \in DOMAIN albums_with_same_name}
        \ {<<>>}

\* C20: the merged first_listen is the lexicographic minimum of the
\* non-empty first_listen values of the group and the merged last_listen
\* the lexicographic maximum of the non-empty last_listen values; with no
\* such value the field stays empty.
C20_MergedListenRange ==
    merged # NotRun =>
        /\ IF FirstListens = {} THEN merged.first_listen = <<>>
           ELSE /\ merged.first_listen \in FirstListens
                /\ \A f \in FirstListens : ~LexLess(f, merged.first_listen)
        /\ IF LastListens = {} THEN merged.last_listen = <<>>
           ELSE /\ merged.last_listen \in LastListens
                /\ \A l \in LastListens : ~LexLess(merged.last_listen, l)

\* the base was first listened to after a folded record and last listened
\* to after it: the merged range starts with the folded record's first
\* listen and ends with the base's last listen
C20_Witness ==
    /\ merged # NotRun
    /\ Len(albums_with_same_name) = 2
    /\ BaseRecord.first_listen # <<>>
    /\ SortedGroup[2].first_listen # <<>>
    /\ LexLess(SortedGroup[2].first_listen, BaseRecord.first_listen)
    /\ LexLess(SortedGroup[2].last_listen, BaseRecord.last_listen)
    /\ merged.first_listen = SortedGroup[2].first_listen
    /\ merged.last_listen = BaseRecord.last_listen

(***************************************************************************)
(* Claims about the aggregates of a pass (SpecRows)                        *)
(***************************************************************************)
\* the timestamp of an event: the end timestamp, or the start timestamp
\* when the end timestamp is empty
EventStamp(row) ==
    IF row.Event_End_Timestamp # <<>> THEN row.Event_End_Timestamp
    ELSE row.Event_Start_Timestamp

\* a watch token in one of the three device columns, in any letter case
HasWatchToken(row) ==
    \E text \in {row.Device_Type, row.Device_OS_Name, row.Client_Device_Name} :
        \E i \in DOMAIN text : text[i] \in {"Watch", "WATCH", "watchOS", "WATCHOS"}

\* the rows of the first n that MusicAnalyzer aggregates under key k
MusicAccepted(n, k) ==
    {i \in 1..n : /\ get_album_key(rows[i]) = k /\ k # <<>>
                  /\ Strip(rows[i].Song_Name) # <<>>}

\* the rows of the first n that WatchAlbumAnalyzer aggregates under key k
WatchAccepted(n, k) ==
    {i \in 1..n : /\ HasWatchToken(rows[i])
                  /\ WatchAlbumKey(rows[i]) = k /\ k # <<>>
                  /\ Strip(rows[i].Song_Name) # <<>>}

MusicKeys == {get_album_key(rows[i]) : i \in DOMAIN rows}
WatchKeys == {WatchAlbumKey(rows[i]) : i \in DOMAIN rows}

ListenRangeOf(a, accepted, k) ==
    LET stamps == {EventStamp(rows[i]) : i \in accepted} \ {<<>>}
    IN stamps # {} =>
          /\ Has(a.album_first_listen, k) /\ Has(a.album_last_listen, k)
          /\ a.album_first_listen[k] \in stamps
          /\ \A t \in stamps : ~LexLess(t, a.album_first_listen[k])
          /\ a.album_last_listen[k] \in stamps
          /\ \A t \in stamps : ~LexLess(a.album_last_listen[k], t)
          /\ ~LexLess(a.album_last_listen[k], a.album_first_listen[k])

\* C21: after every row read, for every key with an aggregated row that has
\* a timestamp (the end timestamp, else the start timestamp), first_listen
\* is the lexicographic minimum and last_listen the lexicographic maximum
\* of the timestamps of the key's aggregated rows, so first_listen <=
\* last_listen.
C21_AggregatedListenRange ==
    watch_analyzer # NotRun =>
        /\ \A k \in MusicKeys :
              ListenRangeOf(music_analyzer, MusicAccepted(music_row_count, k), k)
        /\ \A k \in WatchKeys :
              ListenRangeOf(watch_analyzer, WatchAccepted(watch_row_count, k), k)

\* the watch pass has read a play that ended at 00:10 and then a play
\* without end timestamp that started at 00:05: the range is 00:05..00:10
C21_Witness ==
    /\ watch_analyzer # NotRun
    /\ Len(rows) >= 2 /\ rows[1] = RowOne /\ rows[2] = EventBelow
    /\ watch_row_count = 2
    /\ watch_analyzer.album_first_listen[Smoochies] = Stamp(1, 5, 0)
    /\ watch_analyzer.album_last_listen[Smoochies] = Stamp(1, 10, 0)

PlayCountOf(a, accepted, k) ==
    /\ Get(a.album_play_counts, k, 0) = Cardinality(accepted)
    /\ Get(a.album_play_counts, k, 0) >= Cardinality(Get(a.album_tracks, k, {}))
    /\ Cardinality(Get(a.album_tracks, k, {})) >= Cardinality(Get(a.listened_tracks, k, {}))

\* C22: after every row read, the play count of every key is the number
\* of rows aggregated for it, so play_count >= |all tracks| >= |listened
\* tracks|; and no step of a pass decreases a play count.
C22_PlayCountCountsAccepted ==
    [][/\ watch_analyzer' # NotRun =>
            /\ \A k \in MusicKeys :
                  /\ PlayCountOf(music_analyzer', MusicAccepted(music_row_count', k), k)
                  /\ Get(music_analyzer'.album_play_counts, k, 0)
                        >= Get(music_analyzer.album_play_counts, k, 0)
            /\ \A k \in WatchKeys :
                  /\ PlayCountOf(watch_analyzer', WatchAccepted(watch_row_count', k), k)
                  /\ Get(watch_analyzer'.album_play_counts, k, 0)
                        >= Get(watch_analyzer.album_play_counts, k, 0)]_vars

\* the music pass has read the same play twice and a skipped row: two
\* plays of one track
C22_Witness ==
    /\ music_row_count = 3 /\ Len(rows) = 3
    /\ rows[1] = RowOne /\ rows[2] = EventNoSong /\ rows[3] = RowOne
    /\ music_analyzer.album_play_counts[Smoochies] = 2
    /\ Cardinality(music_analyzer.album_tracks[Smoochies]) = 1

\* C23: after every row read, a key is flagged as played on a watch
\* exactly when one of its aggregated rows has a watch token, in any
\* letter case, in the device type, the device OS name or the client
\* device name; and no step of a pass clears a flag.
C23_WearableFlag ==
    [][/\ watch_analyzer' # NotRun =>
            /\ \A k \in MusicKeys :
                  k \in music_analyzer'.watch_albums
                     <=> \E i \in MusicAccepted(music_row_count', k) : HasWatchToken(rows[i])
            /\ \A k \in WatchKeys :
                  k \in watch_analyzer'.watch_albums
                     <=> \E i \in WatchAccepted(watch_row_count', k) : HasWatchToken(rows[i])
            /\ music_analyzer.watch_albums \subseteq music_analyzer'.watch_albums
            /\ watch_analyzer.watch_albums \subseteq watch_analyzer'.watch_albums]_vars

\* the music pass has read a play whose client device name alone names the
\* watch and then a play of the same album on a phone: the flag stays;
\* the album read on a phone only is not flagged
C23_Witness ==
    /\ music_row_count = 3 /\ Len(rows) = 3
    /\ rows[1] = EventSingle /\ rows[2] = EventContainer /\ rows[3] = EventNoSong
    /\ <<"Smoochies", Single>> \in music_analyzer.watch_albums
    /\ Has(music_analyzer.album_tracks, Other)
    /\ Other \notin music_analyzer.watch_albums

RECURSIVE process_csv(_, _)
\* MusicAnalyzer.process_csv over a whole log
process_csv(a, log) ==
    IF log = <<>> THEN a ELSE process_csv(process_csv_row(a, Head(log)), Tail(log))

\* the aggregate of key k in the analyzer a, as a shard hands it over
ShardAggregate(a, k) ==
    [tracks |-> Get(a.album_tracks, k, {}),
     listened |-> Get(a.listened_tracks, k, {}),
     plays |-> Get(a.album_play_counts, k, 0),
     first |-> Get(a.album_first_listen, k, <<>>),
     last |-> Get(a.album_last_listen, k, <<>>),
     watch |-> k \in a.watch_albums]

\* two aggregates of one key combined: set union, min/max, count sum, OR
Combine(x, y) ==
    [tracks |-> x.tracks \cup y.tracks,
     listened |-> x.listened \cup y.listened,
     plays |-> x.plays + y.plays,
     first |-> IF x.first = <<>> THEN y.first
               ELSE IF y.first = <<>> THEN x.first
               ELSE IF LexLess(y.first, x.first) THEN y.first ELSE x.first,
     last |-> IF x.last = <<>> THEN y.last
              ELSE IF y.last = <<>> THEN x.last
              ELSE IF LexLess(x.last, y.last) THEN y.last ELSE x.last,
     watch |-> x.watch \/ y.watch]

\* the rows of the log with key k, in file order
Shard(k) ==
    LET OfKey(row) == get_album_key(row) = k
    IN SelectSeq(rows, OfKey)

RECURSIVE CombineAll(_, _)
\* the aggregates of key k of a set of shards, combined one after the other
CombineAll(keys, k) ==
    IF keys = {} THEN ShardAggregate(NewMusicAnalyzer, k)
    ELSE LET j == CHOOSE x \in keys : TRUE
         IN Combine(ShardAggregate(process_csv(NewMusicAnalyzer, Shard(j)), k),
                    CombineAll(keys \ {j}, k))

\* C24: when the pass is over, the aggregates of every key are those of
\* the shards (the rows partitioned by key, each shard aggregated on its
\* own from an empty analyzer) combined by set union, min/max and count
\* sum, and those of the pass over the rows in any other order.
C24_ShardedEqualsSequential ==
    (music_analyzer # NotRun /\ music_row_count = Len(rows)) =>
        /\ \A k \in MusicKeys :
              ShardAggregate(music_analyzer, k) = CombineAll(MusicKeys, k)
        /\ DOMAIN music_analyzer.album_tracks
              = {k \in MusicKeys : CombineAll(MusicKeys, k).plays > 0}
        /\ \A p \in Orderings(Len(rows)) :
              Aggregates(process_csv(NewMusicAnalyzer, Reordered(rows, p)))
                 = Aggregates(music_analyzer)

\* the pass is over a log that interleaves two albums, the later play of
\* the first album read before its earlier play
C24_Witness ==
    /\ music_analyzer # NotRun
    /\ Len(rows) = 3 /\ music_row_count = 3
    /\ rows[1] = RowOne /\ rows[2] = EventContainer /\ rows[3] = EventBelow
    /\ music_analyzer.album_first_listen[Smoochies] = Stamp(1, 5, 0)
    /\ music_analyzer.album_play_counts[Smoochies] = 2
    /\ music_analyzer.album_play_counts[Other] = 1

(***************************************************************************)
(* Claims about the catalog (SpecCatalog)                                  *)
(***************************************************************************)
RECURSIVE RowsInOrder(_)
\* the rows of the catalog files that exist, in the order the files are given
RowsInOrder(files) ==
    IF files = <<>> THEN <<>>
    ELSE (IF Head(files).found THEN Head(files).rows ELSE <<>>) \o RowsInOrder(Tail(files))

CatalogKey(row) ==
    IF HasSep(row.Container_Description)
    THEN StripSingle(SplitAlbum(row.Container_Description))
    ELSE StripSingle(Strip(row.Container_Description))

\* the row gives a genre for the album key k
SuppliesGenre(row, k) ==
    /\ row.Container_Type = "ALBUM"
    /\ row.Container_Description # <<>> /\ row.Genres # <<>>
    /\ clean_genres(row.Genres) # <<>>
    /\ CatalogKey(row) = k

\* the row gives an artist for the album key k
SuppliesArtist(row, k) ==
    /\ row.Container_Type = "ALBUM"
    /\ \/ HasSep(row.Container_Description)
       \/ row.Container_Description # <<>> /\ row.Artists # <<>>
    /\ CatalogKey(row) = k

RowArtist(row) ==
    IF HasSep(row.Container_Description) THEN SplitArtist(row.Container_Description)
    ELSE Strip(row.Artists)

\* C25: the genre add_genres.py writes on a record is the genre of the
\* first row, over the catalog files in the order given, that supplies a
\* genre for the record's album name, and the artist load_artist_mapping
\* holds for a key is the artist of the first row of the Container Details
\* file that supplies one, before any lookup of artist_mapping.json.
C25_FirstOccurrenceWins ==
    /\ (lastOp = "add_genres" /\ data # NoFile) =>
          LET all == RowsInOrder(catalog.files)
          IN \A i \in DOMAIN data.watch_albums :
                LET k == data.watch_albums[i].album_name
                    suppliers == {j \in DOMAIN all : SuppliesGenre(all[j], k)}
                IN suppliers # {} =>
                      LET first == CHOOSE j \in suppliers : \A x \in suppliers : j <= x
                      IN Get(data.watch_albums[i], "genre", "")
                            = JoinGenres(clean_genres(all[first].Genres))
    /\ (catalog # NotRun /\ catalog.artists.loaded) =>
          LET all == RowsInOrder(<<catalog.files[1]>>)
          IN \A k \in {Smoochies, Other} :
                LET suppliers == {j \in DOMAIN all : SuppliesArtist(all[j], k)}
                IN suppliers # {} =>
                      LET first == CHOOSE j \in suppliers : \A x \in suppliers : j <= x
                      IN Get(catalog.artists.album_to_artist, k, <<>>) = RowArtist(all[first])

(***************************************************************************)
(* Claims about the runs of the analyzers (SpecSource)                     *)
(***************************************************************************)
SourceFailed == export # NotRun /\ raised \in {"FileNotFoundError", "UnicodeDecodeError"}

NothingAggregated ==
    /\ music_analyzer.album_tracks = <<>> /\ music_analyzer.skipped_rows = 0
    /\ watch_analyzer.album_tracks = <<>> /\ watch_analyzer.skipped_rows = 0

OutputUntouched == data = export.prior /\ music_report = NoFile

C27_ReportAlwaysCompletes ==
    lastOp = "generate_report" =>
        /\ raised = "none"
        /\ data # NoFile
        /\ data.statistics.watch_albums = Len(data.watch_albums)

(***************************************************************************)
(* Claims about the statistics block (SpecStats)                           *)
(***************************************************************************)
\* the step wrote the document: deduplication and the link return without
\* writing when they find nothing to do, the Strava pass exits on an error
StatsWritten ==
    \/ lastOp' = "fetch_strava_data" /\ raised' = "none"
    \/ lastOp' = "merge_maybe_data"
    \/ lastOp' = "deduplicate_albums" /\ HasDuplicates(data.watch_albums)
    \/ lastOp' = "link_ashnikko_strava"
          /\ \E i \in DOMAIN data.watch_albums : IsSmoochies(data.watch_albums[i])

StravaCountersAgree(doc) ==
    /\ Get(doc.statistics, "albums_with_strava_data", -1)
          = Count(doc.watch_albums, HasStravaId)
    /\ Get(doc.statistics, "albums_with_strava_data", -1)
          + Get(doc.statistics, "albums_without_strava_data", -1)
          = Len(doc.watch_albums)

\* C28: after every script that rewrites the document (the Strava pass,
\* deduplication, the fold of the speculative matches, the manual link) the
\* statistics count exactly the records that carry a strava_activity_id, and
\* the two Strava counters add up to the number of records.
C28_StravaCountersConsistent ==
    [][StatsWritten => StravaCountersAgree(data')]_vars

(***************************************************************************)
(* Claims about StravaClient.get_activities (SpecFetch)                    *)
(***************************************************************************)
\* C29: get_activities called with max_requests = N (N >= 1) on a fresh
\* client never makes more than N activity-list requests, whatever the server
\* answers, 401 answers followed by a token refresh and a repeated request
\* included.
C29_RequestBudget ==
    (client.limited /\ client.max_requests > 0)
        => client.request_count <= client.max_requests

\* the loop of get_activities ends against an account of finitely many pages
GetActivitiesReturns == <>(client.pc = "returned")

(***************************************************************************)
(* Claims about toggle_star (SpecStar)                                     *)
(***************************************************************************)
NamedIndexes(doc, name) ==
    {i \in DOMAIN doc.watch_albums : doc.watch_albums[i].album_name = name}

FirstNamedIndex(doc, name) ==
    CHOOSE i \in NamedIndexes(doc, name) : \A j \in NamedIndexes(doc, name) : i <= j

\* the record with its flag flipped, and with its flag written as it reads
Flipped(r) == Put(r, "starred", ~Get(r, "starred", FALSE))
FlagWritten(r) == Put(r, "starred", Get(r, "starred", FALSE))

\* the step toggled name: nothing written and an error when no record has
\* the name, else only the flag of the first record of that name differs
ToggleFrame(name) ==
    IF NamedIndexes(data, name) = {}
    THEN data' = data /\ raised' = "SystemExit"
    ELSE /\ data' = [data EXCEPT !.watch_albums[FirstNamedIndex(data, name)] = Flipped(@)]
         /\ raised' = "none"

\* C30 (as stated): toggle_star(name) changes only the starred flag of the
\* first record named name, leaves the rest of the document unchanged, so
\* that toggling the same name again restores the original document; with no
\* such record the document is not written and the command exits with an
\* error.
C30_ToggleTwiceRestores ==
    [][(lastOp' = "toggle_star" /\ data # NoFile) =>
          \E name \in AlbumNames :
             /\ ToggleFrame(name)
             /\ NamedIndexes(data, name) # {} => toggle_star(data', name) = data]_vars

\* C30 (amended): toggle_star(name) changes only the starred flag of the
\* first record named name and leaves the rest of the document unchanged;
\* toggling the same name again gives the original document with that
\* record's flag written out (the original itself when the record carried
\* the flag, starred = false added when it did not); with no such record the
\* document is not written and the command exits with an error.
C30_ToggleStarFrame ==
    [][(lastOp' = "toggle_star" /\ data # NoFile) =>
          \E name \in AlbumNames :
             /\ ToggleFrame(name)
             /\ NamedIndexes(data, name) # {} =>
                   toggle_star(data', name) =
                      [data EXCEPT !.watch_albums[FirstNamedIndex(data, name)] = FlagWritten(@)]]_vars

\* a name was toggled in a document holding two records of that name: the
\* first is starred, the second is not
C30_Witness ==
    /\ lastOp = "toggle_star" /\ raised = "none" /\ data # NoFile
    /\ \E name \in starredByUser :
          /\ Cardinality(NamedIndexes(data, name)) >= 2
          /\ Get(data.watch_albums[FirstNamedIndex(data, name)], "starred", FALSE)
          /\ \E j \in NamedIndexes(data, name) :
                ~Get(data.watch_albums[j], "starred", FALSE)

====
